---- MODULE Spec2Model ----
(***************************************************************************)
(* A model of the note-intelligence services of ai-note-hub:               *)
(*   - taskExtractor  (services/taskExtractor.js)                          *)
(*   - relationshipsDB (services/storage.js)                               *)
(*   - knowledgeGraph and the embedding helpers (services/knowledgeGraph.js)*)
(*   - digestService and activityDB (the digest service, services/storage.js)*)
(* Text is modelled character by character on TLA+ strings; the regular    *)
(* expressions of the source are translated into matching operators.       *)
(***************************************************************************)
EXTENDS Integers, Sequences, FiniteSets, TLC

VARIABLES
    text,        \* taskExtractor: the text handed to extractTasks
    now,         \* taskExtractor: the value of Date.now() during the call
    noteId,      \* taskExtractor: the noteId argument (<<>> is null)
    parsed,      \* taskExtractor: what new Date(text) gives the by/before/due pattern
    result,      \* taskExtractor: what extractTasks returned, or that it threw
    rels,        \* relationshipsDB: the records of db.relationships
    nextId,      \* relationshipsDB: the next auto-increment key (++id)
    lastCall,    \* relationshipsDB: what the last createRelationship returned
    embText,     \* generateEmbedding: the text of the last call
    embedding,   \* generateEmbedding: what the last call returned
    vec1,        \* cosineSimilarity: the first argument of the last call
    vec2,        \* cosineSimilarity: the second argument of the last call
    cosine,      \* cosineSimilarity: what the last call returned (<<>>: no call yet)
    notes,       \* buildGraph: the notes array, as it is after the call
    given,       \* buildGraph: the notes array as the caller handed it over
    threshold,   \* buildGraph: the threshold argument
    runs,        \* buildGraph: the lists returned by the runs on these arguments
    related,     \* findRelatedNotes: the arguments and the result of the last call
    tagCall,     \* calculateTagSimilarity: the last call, when it was the last one made
    keywordCall, \* calculateKeywordSimilarity: the last call, when it was the last one made
    search,      \* semanticSearch: the arguments and the result of the call being looked at
    clusters,    \* clusterByTopic: the arguments and the result of the call being looked at
    summaryCall, \* generateSummary: the activity and the result of the last call
    today,       \* activityDB: the calendar date of new Date(), as a day number
    dailyActivity, \* activityDB: the records of db.dailyActivity, by primary key
    activityNextId, \* activityDB: the next auto-increment key (++id)
    recording,   \* activityDB: where each caller of recordActivity stands
    digest,      \* generateDailyDigest: the call being looked at
    weekly,      \* getWeeklySummary: the call being looked at
    storedNote,  \* notesDB: the title, content and embedding of the note in db.notes
    versions,    \* notesDB: the records of db.versions of the note
    updating,    \* handleUpdateNote: where each call under way stands
    metaCall,    \* extractMetadata: the arguments and the result of the call being looked at
    taskTable,   \* tasksDB: the records of db.tasks, by primary key
    transcriptionService,  \* TranscriptionService: isRecording, the recognizer, the MediaRecorder
    recordingInterface,    \* RecordingInterface: the isRecording and isPaused states
    speechLog    \* TranscriptionService: the last step, and whether a pause or a stop is in force

taskVars == <<text, now, noteId, parsed, result>>
relVars == <<rels, nextId, lastCall>>
embedVars == <<embText, embedding, vec1, vec2, cosine>>
graphVars == <<notes, given, threshold, runs, related>>
simVars == <<tagCall, keywordCall>>
searchVars == <<search, clusters>>
digestVars == <<summaryCall>>
activityVars == <<today, dailyActivity, activityNextId, recording, digest, weekly>>
noteVars == <<storedNote, versions, updating>>
metaVars == <<metaCall>>
taskDbVars == <<taskTable>>
transcriptionVars == <<transcriptionService, recordingInterface, speechLog>>
vars == <<taskVars, relVars, embedVars, graphVars, simVars, searchVars, digestVars, activityVars, noteVars, metaVars, taskDbVars, transcriptionVars>>

\* what the actions of one service leave alone
exceptTask == <<relVars, embedVars, graphVars, simVars, searchVars, digestVars, activityVars, noteVars, metaVars, taskDbVars, transcriptionVars>>
exceptRel == <<taskVars, embedVars, graphVars, simVars, searchVars, digestVars, activityVars, noteVars, metaVars, taskDbVars, transcriptionVars>>
exceptEmbed == <<taskVars, relVars, graphVars, simVars, searchVars, digestVars, activityVars, noteVars, metaVars, taskDbVars, transcriptionVars>>
exceptGraph == <<taskVars, relVars, embedVars, simVars, searchVars, digestVars, activityVars, noteVars, metaVars, taskDbVars, transcriptionVars>>
exceptSim == <<taskVars, relVars, embedVars, graphVars, searchVars, digestVars, activityVars, noteVars, metaVars, taskDbVars, transcriptionVars>>
exceptSummary == <<taskVars, relVars, embedVars, graphVars, simVars, searchVars, activityVars, noteVars, metaVars, taskDbVars, transcriptionVars>>
exceptTaskDb ==
    <<taskVars, relVars, embedVars, graphVars, simVars, searchVars, digestVars,
      activityVars, noteVars, metaVars, transcriptionVars>>
exceptMeta ==
    <<taskVars, relVars, embedVars, graphVars, simVars, searchVars, digestVars,
      activityVars, noteVars, taskDbVars, transcriptionVars>>
exceptNotes ==
    <<taskVars, relVars, embedVars, graphVars, simVars, searchVars, digestVars, metaVars, taskDbVars, transcriptionVars>>
exceptTranscription ==
    <<taskVars, relVars, embedVars, graphVars, simVars, searchVars, digestVars,
      activityVars, noteVars, metaVars, taskDbVars>>
exceptActivity == <<taskVars, relVars, embedVars, graphVars, simVars, searchVars, digestVars, noteVars, metaVars, taskDbVars, transcriptionVars>>
exceptSearch == <<taskVars, relVars, embedVars, graphVars, simVars, digestVars, activityVars, noteVars, metaVars, taskDbVars, transcriptionVars>>

(***************************************************************************)
(* Characters and strings                                                  *)
(***************************************************************************)
\* s.charAt(i) with positions from 1; "" outside the string
Char(s, i) == IF 1 <= i /\ i <= Len(s) THEN SubSeq(s, i, i) ELSE ""

CharSet(s) == {Char(s, i) : i \in 1..Len(s)}

UpperLetters == "ABCDEFGHIJKLMNOPQRSTUVWXYZ"

LowerLetters == "abcdefghijklmnopqrstuvwxyz"

DigitChars == "0123456789"

UpperSet == CharSet(UpperLetters)

DigitSet == CharSet(DigitChars)

\* \s of a JavaScript regular expression (the characters the inputs can hold)
SpaceChars == {" ", "\t", "\n", "\r"}

IsSpace(c) == c \in SpaceChars

\* \w of a JavaScript regular expression: [A-Za-z0-9_]
WordCharSet == UpperSet \cup CharSet(LowerLetters) \cup DigitSet \cup {"_"}

IsWordChar(c) == c \in WordCharSet

LowerMap ==
    [c \in UpperSet |->
        Char(LowerLetters, CHOOSE i \in 1..Len(UpperLetters) : Char(UpperLetters, i) = c)]

LowerChar(c) == IF c \in UpperSet THEN LowerMap[c] ELSE c

RECURSIVE ToLowerCase(_)
\* String.prototype.toLowerCase
ToLowerCase(s) ==
    IF s = "" THEN "" ELSE LowerChar(Char(s, 1)) \o ToLowerCase(SubSeq(s, 2, Len(s)))

RECURSIVE TrimStart(_)
TrimStart(s) ==
    IF s # "" /\ IsSpace(Char(s, 1)) THEN TrimStart(SubSeq(s, 2, Len(s))) ELSE s

RECURSIVE TrimEnd(_)
TrimEnd(s) ==
    IF s # "" /\ IsSpace(Char(s, Len(s))) THEN TrimEnd(SubSeq(s, 1, Len(s) - 1)) ELSE s

\* String.prototype.trim
Trim(s) == TrimEnd(TrimStart(s))

SetMin(S) == CHOOSE x \in S : \A y \in S : x <= y

\* String.prototype.split on a one-character separator: the pieces of s from
\* position start on
Split(s, sep) ==
    LET RECURSIVE SplitFrom(_)
        SplitAt(start, seps) ==
            IF seps = {} THEN <<SubSeq(s, start, Len(s))>>
            ELSE <<SubSeq(s, start, SetMin(seps) - 1)>> \o SplitFrom(SetMin(seps) + 1)
        SplitFrom(start) == SplitAt(start, {i \in start..Len(s) : Char(s, i) = sep})
    IN SplitFrom(1)

\* the literal w (given in lower case) occurs in s at position i, ignoring case
MatchesAtCI(s, i, w) ==
    /\ i >= 1
    /\ i + Len(w) - 1 <= Len(s)
    /\ LowerChar(Char(s, i)) = Char(w, 1)
    /\ ToLowerCase(SubSeq(s, i, i + Len(w) - 1)) = w

RECURSIVE RunLength(_, _, _)
\* the number of consecutive characters from position i on that are in class
RunLength(s, i, class) ==
    IF i <= Len(s) /\ Char(s, i) \in class THEN 1 + RunLength(s, i + 1, class) ELSE 0

\* \b between positions i-1 and i of s
WordBoundary(s, i) ==
    LET before == IsWordChar(Char(s, i - 1))
        after == IsWordChar(Char(s, i))
    IN before # after

DigitValue ==
    [c \in DigitSet |-> (CHOOSE i \in 1..10 : Char(DigitChars, i) = c) - 1]

RECURSIVE ParseInt(_)
\* parseInt of a string of decimal digits
ParseInt(ds) ==
    IF ds = "" THEN 0
    ELSE 10 * ParseInt(SubSeq(ds, 1, Len(ds) - 1))
         + DigitValue[Char(ds, Len(ds))]

Range(f) == {f[x] : x \in DOMAIN f}

\* s without the len characters that start at position i
RemoveAt(s, i, len) == SubSeq(s, 1, i - 1) \o SubSeq(s, i + len, Len(s))

(***************************************************************************)
(* taskExtractor.extractTasks: the four line patterns                      *)
(***************************************************************************)
\* [\s-]* at the start of a pattern: the position after the prefix
AfterPrefix(s) == 1 + RunLength(s, 1, SpaceChars \cup {"-"})

\* a failed String.prototype.match (null)
NoMatch == [matched |-> FALSE, pattern |-> 0, groups |-> <<>>]

\* the array String.prototype.match returns: its capture groups
Matched(groups) == [matched |-> TRUE, pattern |-> 0, groups |-> groups]

\* /^[\s-]*\[([x ])\]\s+(.+)$/i : groups are the box character and the text
MatchCheckbox(s) ==
    LET BoxAt(p, ws) ==
            IF /\ Char(s, p) = "["
               /\ Char(s, p + 1) \in {"x", "X", " "}
               /\ Char(s, p + 2) = "]"
               /\ ws >= 1
               /\ p + 3 + ws <= Len(s)
            THEN Matched(<<Char(s, p + 1), SubSeq(s, p + 3 + ws, Len(s))>>)
            ELSE NoMatch
        BoxFrom(p) == BoxAt(p, RunLength(s, p + 3, SpaceChars))
    IN BoxFrom(AfterPrefix(s))

\* keyword kw at position p, one or more separators, (.+)$ : what (.+) captures
\* after a run of separators of length run that starts at q is the rest of the
\* line, or (the run giving back its last character) that character
KeywordCapture(s, p, kw, sepClass) ==
    LET CaptureAfter(q, run) ==
            IF run = 0 THEN <<>>
            ELSE IF q + run <= Len(s) THEN <<SubSeq(s, q + run, Len(s))>>
            ELSE IF run >= 2 THEN <<Char(s, q + run - 1)>>
            ELSE <<>>
    IN IF MatchesAtCI(s, p, kw)
       THEN CaptureAfter(p + Len(kw), RunLength(s, p + Len(kw), sepClass))
       ELSE <<>>

\* /^[\s-]*(?:k1|k2|...)SEP+(.+)$/i : the first alternative, in their order,
\* that lets the line match
MatchKeywords(s, kws, sepClass) ==
    LET RECURSIVE KeywordsFrom(_)
        CaptureOrNext(cap, k) == IF cap # <<>> THEN Matched(cap) ELSE KeywordsFrom(k + 1)
        KeywordsFrom(k) ==
            IF k > Len(kws) THEN NoMatch
            ELSE CaptureOrNext(KeywordCapture(s, AfterPrefix(s), kws[k], sepClass), k)
    IN KeywordsFrom(1)

MarkerKeywords == <<"todo", "to-do", "task">>

ModalKeywords == <<"need to", "must", "should", "will", "have to", "don't forget to">>

ImperativeKeywords ==
    <<"call", "email", "send", "schedule", "book", "buy", "fix", "update", "review",
      "complete", "finish", "start", "begin">>

\* the patterns array, in its order
MatchPattern(k, s) ==
    CASE k = 1 -> MatchCheckbox(s)
      [] k = 2 -> MatchKeywords(s, MarkerKeywords, SpaceChars \cup {":"})
      [] k = 3 -> MatchKeywords(s, ModalKeywords, SpaceChars)
      [] k = 4 -> MatchKeywords(s, ImperativeKeywords, SpaceChars)

NumPatterns == 4

\* The match of the first pattern after the checkbox pattern that matches.
FirstMatchSkipCheckbox(s) ==
    LET RECURSIVE MatchFrom(_)
        MatchOrNext(m, k) == IF m.matched THEN [m EXCEPT !.pattern = k] ELSE MatchFrom(k + 1)
        MatchFrom(k) == IF k > NumPatterns THEN NoMatch ELSE MatchOrNext(MatchPattern(k, s), k)
    IN MatchFrom(2)

\* for (const pattern of patterns) { const match = trimmed.match(pattern); if (match) ... break }
\* gives the match of the first pattern that matches the trimmed line
FirstMatch(s) ==
    LET RECURSIVE MatchFrom(_)
        MatchOrNext(m, k) == IF m.matched THEN [m EXCEPT !.pattern = k] ELSE MatchFrom(k + 1)
        MatchFrom(k) == IF k > NumPatterns THEN NoMatch ELSE MatchOrNext(MatchPattern(k, s), k)
    IN MatchFrom(1)

(***************************************************************************)
(* taskExtractor.extractMetadata                                           *)
(***************************************************************************)
\* one alternative of a marker expression: a run of "!" or a literal word
Bang(min, greedy) == [kind |-> "bang", min |-> min, greedy |-> greedy, w |-> ""]

Lit(w) == [kind |-> "lit", min |-> 0, greedy |-> FALSE, w |-> w]

\* /!{3,}|urgent|critical|asap/i
HighMarkers == <<Bang(3, TRUE), Lit("urgent"), Lit("critical"), Lit("asap")>>

\* /!{2}|important/i
MediumMarkers == <<Bang(2, FALSE), Lit("important")>>

\* /!|low priority|when possible/i
LowMarkers == <<Bang(1, FALSE), Lit("low priority"), Lit("when possible")>>

\* the length of the match of one alternative at position i, 0 when it fails
AltLenAt(alt, s, i) ==
    LET BangLen(run) ==
            IF run >= alt.min THEN (IF alt.greedy THEN run ELSE alt.min) ELSE 0
    IN IF alt.kind = "bang" THEN BangLen(RunLength(s, i, {"!"}))
       ELSE IF MatchesAtCI(s, i, alt.w) THEN Len(alt.w) ELSE 0

\* the length of the match of the alternation at position i: its first alternative
\* that matches there
MarkerLenAt(alts, s, i) ==
    LET RECURSIVE LenFrom(_)
        LenOrNext(n, k) == IF n > 0 THEN n ELSE LenFrom(k + 1)
        LenFrom(k) == IF k > Len(alts) THEN 0 ELSE LenOrNext(AltLenAt(alts[k], s, i), k)
    IN LenFrom(1)

\* RegExp.prototype.test
MarkerTest(alts, s) == \E i \in 1..Len(s) : MarkerLenAt(alts, s, i) > 0

\* s.replace(/.../gi, '') : every match removed, left to right
MarkerReplaceAll(alts, s) ==
    LET RECURSIVE ReplaceFrom(_)
        ReplaceStep(n, i) ==
            IF n > 0 THEN ReplaceFrom(i + n) ELSE Char(s, i) \o ReplaceFrom(i + 1)
        ReplaceFrom(i) == IF i > Len(s) THEN "" ELSE ReplaceStep(MarkerLenAt(alts, s, i), i)
    IN ReplaceFrom(1)

\* a word w (lower case) standing between two word boundaries at position i
WordAt(s, i, w) ==
    IF MatchesAtCI(s, i, w) /\ WordBoundary(s, i) /\ WordBoundary(s, i + Len(w))
    THEN Len(w) ELSE 0

\* /\b(today|tomorrow)\b/i at position i
TodayTomorrowAt(s, i) ==
    IF WordAt(s, i, "today") > 0 THEN Len("today") ELSE WordAt(s, i, "tomorrow")

\* /\bnext week\b/i at position i
NextWeekAt(s, i) == WordAt(s, i, "next week")

\* /\bnext month\b/i at position i
NextMonthAt(s, i) == WordAt(s, i, "next month")

\* the number of digits \d+ takes in /\bin (\d+) days?\b/i at position i
InDaysDigits(s, i) == RunLength(s, i + 3, DigitSet)

\* /\bin (\d+) days?\b/i at position i: after "in " and d digits comes
\* " days?\b", where e is the position after " day"
InDaysAt(s, i) ==
    LET InDaysLen(d, e) ==
            IF d = 0 \/ ~MatchesAtCI(s, i + 3 + d, " day") THEN 0
            ELSE IF MatchesAtCI(s, e, "s") /\ WordBoundary(s, e + 1) THEN e + 1 - i
            ELSE IF WordBoundary(s, e) THEN e - i
            ELSE 0
        InDaysFrom(d) == InDaysLen(d, i + 3 + d + Len(" day"))
    IN IF MatchesAtCI(s, i, "in ") /\ WordBoundary(s, i)
       THEN InDaysFrom(InDaysDigits(s, i)) ELSE 0

\* the lengths \d{lo,hi} may take on a run of run digits
DigitTakes(run, lo, hi) == {n \in lo..hi : n <= run}

DateSeps == {"/", "-"}

\* the length of a date text: a digits, a separator, b digits and, when y > 0,
\* a separator and y digits
DateLen(c) == c.a + 1 + c.b + (IF c.y > 0 THEN 1 + c.y ELSE 0)

\* \d{1,2}[\/\-]\d{1,2}(?:[\/\-]\d{2,4})?\b at position i: the ways it matches
DateCandidates(s, i) ==
    {c \in [a : 1..2, b : 1..2, y : {0, 2, 3, 4}] :
        /\ c.a \in DigitTakes(RunLength(s, i, DigitSet), 1, 2)
        /\ Char(s, i + c.a) \in DateSeps
        /\ c.b \in DigitTakes(RunLength(s, i + c.a + 1, DigitSet), 1, 2)
        /\ (c.y > 0 =>
              /\ Char(s, i + c.a + 1 + c.b) \in DateSeps
              /\ c.y \in DigitTakes(RunLength(s, i + c.a + 2 + c.b, DigitSet), 2, 4))
        /\ WordBoundary(s, i + DateLen(c))}

\* the length of the date text at position i, 0 when there is none: the
\* expression prefers more digits and the year, and gives them back only when
\* the rest fails
DateTextLen(s, i) ==
    LET Preferred(c, d) ==
            \/ c.a > d.a
            \/ c.a = d.a /\ c.b > d.b
            \/ c.a = d.a /\ c.b = d.b /\ c.y > d.y
        BestDateLen(cands) ==
            IF cands = {} THEN 0
            ELSE DateLen(CHOOSE c \in cands : \A d \in cands : d = c \/ Preferred(c, d))
    IN BestDateLen(DateCandidates(s, i))

\* the keyword of (?:by|before|due) that stands at position i, "" when none
ByKeywordAt(s, i) ==
    IF MatchesAtCI(s, i, "by") THEN "by"
    ELSE IF MatchesAtCI(s, i, "before") THEN "before"
    ELSE IF MatchesAtCI(s, i, "due") THEN "due"
    ELSE ""

\* /\b(?:by|before|due)\s+(date)\b/i at position i
ByDateAt(s, i) ==
    LET DateAfter(pre, d) == IF d = 0 THEN 0 ELSE pre + d
        SpaceAfter(n, ws) ==
            IF ws = 0 THEN 0 ELSE DateAfter(n + ws, DateTextLen(s, i + n + ws))
        KeywordAt(kw) ==
            IF kw = "" \/ ~WordBoundary(s, i) THEN 0
            ELSE SpaceAfter(Len(kw), RunLength(s, i + Len(kw), SpaceChars))
    IN KeywordAt(ByKeywordAt(s, i))

NumDatePatterns == 5

\* the datePatterns array, in its order: the length of pattern k's match at i
DatePatternAt(k, s, i) ==
    CASE k = 1 -> TodayTomorrowAt(s, i)
      [] k = 2 -> NextWeekAt(s, i)
      [] k = 3 -> NextMonthAt(s, i)
      [] k = 4 -> InDaysAt(s, i)
      [] k = 5 -> ByDateAt(s, i)

\* where String.prototype.match finds pattern k in s: 0 when it does not
DatePatternPos(k, s) ==
    LET RECURSIVE PosFrom(_)
        PosFrom(i) ==
            IF i > Len(s) THEN 0
            ELSE IF DatePatternAt(k, s, i) > 0 THEN i
            ELSE PosFrom(i + 1)
    IN PosFrom(1)

\* s.replace(pattern, '') : the first match of pattern k removed
DatePatternRemove(k, s) ==
    LET RemoveMatchAt(i) == IF i = 0 THEN s ELSE RemoveAt(s, i, DatePatternAt(k, s, i))
    IN RemoveMatchAt(DatePatternPos(k, s))

RECURSIVE StripTrailing(_, _)
\* s.replace(/[.!]+$/, '')
StripTrailing(s, class) ==
    IF s # "" /\ Char(s, Len(s)) \in class
    THEN StripTrailing(SubSeq(s, 1, Len(s) - 1), class) ELSE s

\* the clock of the model ticks in seconds: 24 * 60 * 60 * 1000 ms
DayUnits == 24 * 60 * 60

\* Math.ceil(a / b) for b > 0
CeilDiv(a, b) == -((-a) \div b)

\* a value of the days callbacks: a number, NaN, or a thrown error
DaysValue(n) == [threw |-> "", nan |-> FALSE, n |-> n]

DaysNaN == [threw |-> "", nan |-> TRUE, n |-> 0]

DaysThrow(e) == [threw |-> e, nan |-> FALSE, n |-> 0]

\* days(match) of datePatterns[k], where match is the array String.prototype.match
\* returned for the text. pd is what new Date(match[1]) gives for the fifth
\* pattern (the format is not ISO, so the engine decides): <<>> for an Invalid
\* Date, <<t>> for the time value t.
\* The first callback calls match.toLowerCase(): match is an array, which has no
\* such method, so the call throws a TypeError.
DaysToAdd(k, s, nowT, pd) ==
    LET InDaysValue(i) == ParseInt(SubSeq(s, i + 3, i + 2 + InDaysDigits(s, i)))
    IN CASE k = 1 -> DaysThrow("TypeError")
         [] k = 2 -> DaysValue(7)
         [] k = 3 -> DaysValue(30)
         [] k = 4 -> DaysValue(InDaysValue(DatePatternPos(4, s)))
         [] k = 5 -> IF pd = <<>> THEN DaysNaN
                     ELSE DaysValue(CeilDiv(pd[1] - nowT, DayUnits))

\* the priority branch taken for the text: 1 high, 2 medium, 3 low, 0 none
PriorityTier(s) ==
    IF MarkerTest(HighMarkers, s) THEN 1
    ELSE IF MarkerTest(MediumMarkers, s) THEN 2
    ELSE IF MarkerTest(LowMarkers, s) THEN 3
    ELSE 0

\* The priorities with low, not medium, for a text without a marker.
PriorityOfDefaultLow(tier) ==
    CASE tier = 1 -> "high"
      [] tier = 2 -> "medium"
      [] tier = 3 -> "low"
      [] OTHER -> "low"

PriorityOf(tier) ==
    CASE tier = 1 -> "high"
      [] tier = 2 -> "medium"
      [] tier = 3 -> "low"
      [] OTHER -> "medium"

\* cleanText after the priority branch
StripPriority(s, tier) ==
    CASE tier = 1 -> Trim(MarkerReplaceAll(HighMarkers, s))
      [] tier = 2 -> Trim(MarkerReplaceAll(MediumMarkers, s))
      [] tier = 3 -> Trim(MarkerReplaceAll(LowMarkers, s))
      [] OTHER -> s

\* The choice of the last of the datePatterns that matches the text.
FirstDatePatternLast(s) ==
    LET RECURSIVE PatternFrom(_)
        PatternFrom(k) ==
            IF k < 1 THEN 0
            ELSE IF DatePatternPos(k, s) > 0 THEN k
            ELSE PatternFrom(k - 1)
    IN PatternFrom(NumDatePatterns)

\* for (const { pattern, days } of datePatterns) { const match = text.match(pattern); if (match) ... break }
\* stops at the first of the datePatterns that matches the text: 0 when none does
FirstDatePattern(s) ==
    LET RECURSIVE PatternFrom(_)
        PatternFrom(k) ==
            IF k > NumDatePatterns THEN 0
            ELSE IF DatePatternPos(k, s) > 0 THEN k
            ELSE PatternFrom(k + 1)
    IN PatternFrom(1)

\* extractMetadata(text): {priority, dueDate, cleanText}, or the error thrown.
\* dueDate is <<>> for null and <<t>> for the time value that toISOString prints;
\* new Date(NaN).toISOString() throws a RangeError.
ExtractMetadata(s, nowT, pd) ==
    LET FinalClean(c) == Trim(StripTrailing(c, {".", "!"}))
        MetaThrew(e) ==
            [threw |-> e, priority |-> "", dueDate |-> <<>>, cleanText |-> ""]
        Meta(priority, dueDate, cleanText) ==
            [threw |-> "", priority |-> priority, dueDate |-> dueDate,
             cleanText |-> cleanText]
        MetadataDated(tier, k, days) ==
            IF days.threw # "" THEN MetaThrew(days.threw)
            ELSE IF days.nan THEN MetaThrew("RangeError")
            ELSE Meta(PriorityOf(tier), <<nowT + days.n * DayUnits>>,
                      FinalClean(Trim(DatePatternRemove(k, StripPriority(s, tier)))))
        MetadataFor(tier, k) ==
            IF k = 0
            THEN Meta(PriorityOf(tier), <<>>, FinalClean(StripPriority(s, tier)))
            ELSE MetadataDated(tier, k, DaysToAdd(k, s, nowT, pd))
    IN MetadataFor(PriorityTier(s), FirstDatePattern(s))

(***************************************************************************)
(* taskExtractor.extractTasks and deduplicateTasks                         *)
(***************************************************************************)
\* match[1] === 'x'
IsCompleted(groups) == groups[1] = "x"

NoTasks == [threw |-> "", tasks |-> <<>>]

\* the body of the loop over the lines for one line: the tasks it pushes (none
\* or one), or the error it throws
LineTasks(line, nid, nowT, pd) ==
    LET PushTask(trimmed, groups, meta) ==
            IF meta.threw # "" THEN [threw |-> meta.threw, tasks |-> <<>>]
            ELSE [threw |-> "",
                  tasks |-> <<[title |-> meta.cleanText,
                               noteId |-> nid,
                               completed |-> IsCompleted(groups),
                               priority |-> meta.priority,
                               dueDate |-> meta.dueDate,
                               extractedFrom |-> trimmed]>>]
        \* if (taskText && taskText.length > 2) { ... }
        TaskTextTasks(trimmed, groups, taskText) ==
            IF Len(taskText) <= 2 THEN NoTasks
            ELSE PushTask(trimmed, groups, ExtractMetadata(taskText, nowT, pd))
        \* if (match) { const taskText = match[match.length - 1]?.trim(); ... break }
        MatchedLineTasks(trimmed, m) ==
            IF ~m.matched THEN NoTasks
            ELSE TaskTextTasks(trimmed, m.groups, Trim(m.groups[Len(m.groups)]))
        \* if (!trimmed || trimmed.length < 5) continue
        TrimmedLineTasks(trimmed) ==
            IF trimmed = "" \/ Len(trimmed) < 5 THEN NoTasks
            ELSE MatchedLineTasks(trimmed, FirstMatch(trimmed))
    IN TrimmedLineTasks(Trim(line))

\* the lines the texts are made of
TaskLines ==
    { "TODO: call dentist tomorrow!!!",
      "- [x] Buy milk",
      "- [X] Buy milk",
      "  - [ ] buy MILK!",
      "Must fix bug next week",
      "TASK: Fix Bug.",
      "Call Bob in 3 days!!",
      "Email boss by 12/25 asap",
      "just a note",
      "TODO: ab",
      "note",
      "TODO: urgent!!!",
      "- [ ] TODO: call Bob" }

\* values of Date.now()
Nows == {0, 1000}

NoteIds == {<<>>, <<7>>}

\* new Date("12/25"): an Invalid Date, or a time value
ParsedDates == {<<>>, <<3 * DayUnits + 50>>}

\* the loop body's outcome for the input lines, computed once per line
\* (@@ makes TLC tabulate the function instead of evaluating it at each use)
LineTable ==
    [a \in TaskLines \X NoteIds \X Nows \X ParsedDates |->
        LineTasks(a[1], a[2], a[3], a[4])] @@ <<>>

LineOutcome(line, nid, nowT, pd) ==
    IF <<line, nid, nowT, pd>> \in DOMAIN LineTable
    THEN LineTable[<<line, nid, nowT, pd>>]
    ELSE LineTasks(line, nid, nowT, pd)

RECURSIVE CollectTasks(_, _, _, _, _)
\* for (const line of lines) { ... tasks.push(...) }
CollectTasks(lines, i, nid, nowT, pd) ==
    LET Prepend(tasks, rest) ==
            IF rest.threw # "" THEN rest
            ELSE [threw |-> "", tasks |-> tasks \o rest.tasks]
        CollectNext(here) ==
            IF here.threw # "" THEN here
            ELSE Prepend(here.tasks, CollectTasks(lines, i + 1, nid, nowT, pd))
    IN IF i > Len(lines) THEN NoTasks
       ELSE CollectNext(LineOutcome(lines[i], nid, nowT, pd))

\* a deduplication that compares the titles as they are written
DedupKeyExact(task) == task.title

\* the key deduplicateTasks stores in its Set
DedupKey(task) == ToLowerCase(task.title)

\* deduplicateTasks(tasks): tasks.filter(task => { ... }) with the Set seen
DeduplicateTasks(tasks) ==
    LET RECURSIVE FilterFrom(_, _)
        FilterFrom(i, seen) ==
            IF i > Len(tasks) THEN <<>>
            ELSE IF DedupKey(tasks[i]) \in seen THEN FilterFrom(i + 1, seen)
            ELSE <<tasks[i]>> \o FilterFrom(i + 1, seen \cup {DedupKey(tasks[i])})
    IN FilterFrom(1, {})

\* extractTasks(text, nid): the list returned, or the error thrown
ExtractTasks(t, nid, nowT, pd) ==
    LET Outcome(got) ==
            IF got.threw # ""
            THEN [status |-> "threw", error |-> got.threw, tasks |-> <<>>]
            ELSE [status |-> "returned", error |-> "",
                  tasks |-> DeduplicateTasks(got.tasks)]
    IN Outcome(CollectTasks(Split(t, "\n"), 1, nid, nowT, pd))

(***************************************************************************)
(* The task extractor as a state machine: a call and its outcome           *)
(***************************************************************************)
\* the most lines a text holds
MaxLines == 2

RECURSIVE TextsOf(_)
\* the texts of exactly n lines
TextsOf(n) ==
    IF n = 1 THEN TaskLines
    ELSE {t \o "\n" \o l : t \in TextsOf(n - 1), l \in TaskLines}

Texts == UNION {TextsOf(n) : n \in 1..MaxLines}

Idle == [status |-> "idle", error |-> "", tasks |-> <<>>]

TaskInit ==
    /\ text = ""
    /\ now = 0
    /\ noteId = <<>>
    /\ parsed = <<>>
    /\ result = Idle

\* a call of taskExtractor.extractTasks(text, noteId)
ExtractTasksCall ==
    /\ result = Idle
    /\ \E t \in Texts, n \in Nows, id \in NoteIds, pd \in ParsedDates :
          /\ text' = t
          /\ now' = n
          /\ noteId' = id
          /\ parsed' = pd
          /\ result' = ExtractTasks(t, id, n, pd)
    /\ UNCHANGED exceptTask

\* the caller is done with the outcome
ExtractTasksDone ==
    /\ result # Idle
    /\ text' = ""
    /\ now' = 0
    /\ noteId' = <<>>
    /\ parsed' = <<>>
    /\ result' = Idle
    /\ UNCHANGED exceptTask

(***************************************************************************)
(* relationshipsDB (storage.js): the relationships table                   *)
(***************************************************************************)
\* the auto-increment key stops the model at MaxRelId records added
MaxRelId == 3

\* the ids of the notes the calls name
RelNoteIds == {1, 2}

\* the strength (in hundredths) and type handed to createRelationship
RelInputs == {[strength |-> 30, type |-> "semantic"], [strength |-> 90, type |-> "manual"]}

\* a createRelationship that never finds the pair
FindExistingNone(store, s, t) == {}

\* db.relationships.where('sourceNoteId').equals(s).and(rel => rel.targetNoteId === t)
FindExisting(store, s, t) == {r \in store : r.sourceNoteId = s /\ r.targetNoteId = t}

\* .first(): the match with the least primary key
FirstOf(matches) == CHOOSE r \in matches : \A q \in matches : r.id <= q.id

\* relationshipsDB.createRelationship(s, t, strength, type)
CreateRelationship(s, t, strength, type) ==
    LET matches == FindExisting(rels, s, t)
        existing == FirstOf(matches)
        relationship == [id |-> nextId, sourceNoteId |-> s, targetNoteId |-> t,
                         strength |-> strength, type |-> type]
    IN /\ IF matches # {}
          THEN /\ rels' = (rels \ {existing})
                            \cup {[existing EXCEPT !.strength = strength, !.type = type]}
               /\ nextId' = nextId
               /\ lastCall' = <<[op |-> "createRelationship", returned |-> existing]>>
          ELSE /\ nextId <= MaxRelId
               /\ rels' = rels \cup {relationship}
               /\ nextId' = nextId + 1
               /\ lastCall' = <<[op |-> "createRelationship", returned |-> relationship]>>
       /\ UNCHANGED exceptRel

CreateRelationshipCall ==
    \E s \in RelNoteIds, t \in RelNoteIds, in \in RelInputs :
        CreateRelationship(s, t, in.strength, in.type)

\* relationshipsDB.deleteRelationship(id)
DeleteRelationship ==
    \E r \in rels :
        /\ rels' = rels \ {r}
        /\ nextId' = nextId
        /\ lastCall' = <<>>
        /\ UNCHANGED exceptRel

\* relationshipsDB.rebuildRelationships(): db.relationships.clear()
RebuildRelationships ==
    /\ rels # {}
    /\ rels' = {}
    /\ nextId' = nextId
    /\ lastCall' = <<>>
    /\ UNCHANGED exceptRel

RelInit ==
    /\ rels = {}
    /\ nextId = 1
    /\ lastCall = <<>>

(***************************************************************************)
(* Numbers: the values of the similarities are kept as exact fractions     *)
(***************************************************************************)
\* a JavaScript number that is the fraction num / den (den > 0)
Frac(num, den) == [nan |-> FALSE, num |-> num, den |-> den]

\* NaN
NotANumber == [nan |-> TRUE, num |-> 0, den |-> 1]

Zero == Frac(0, 1)

One == Frac(1, 1)

RECURSIVE GCD(_, _)
GCD(a, b) == IF b = 0 THEN a ELSE GCD(b, a % b)

\* the same number in lowest terms
Lowest(a) ==
    LET LowestBy(g) == Frac(a.num \div g, a.den \div g)
    IN LowestBy(GCD(a.den, a.num))

\* a * b
Times(a, b) ==
    IF a.nan \/ b.nan THEN NotANumber ELSE Lowest(Frac(a.num * b.num, a.den * b.den))

\* a + b
Plus(a, b) ==
    IF a.nan \/ b.nan THEN NotANumber
    ELSE Lowest(Frac(a.num * b.den + b.num * a.den, a.den * b.den))

\* a >= b : false when either is NaN
AtLeast(a, b) == ~a.nan /\ ~b.nan /\ a.num * b.den >= b.num * a.den

\* a > b : false when either is NaN
MoreThan(a, b) == ~a.nan /\ ~b.nan /\ a.num * b.den > b.num * a.den

\* a and b are the same number (NaN is no number)
SameNumber(a, b) == ~a.nan /\ ~b.nan /\ a.num * b.den = b.num * a.den

\* Math.sqrt, exact on the squares of integers and rounded down on the other
\* integers: the texts of the model are chosen so that every norm is an
\* integer, which keeps every similarity a fraction
Sqrt(n) == CHOOSE r \in 0..n : r * r <= n /\ (r + 1) * (r + 1) > n

Min(a, b) == IF a <= b THEN a ELSE b

(***************************************************************************)
(* The tokenizer shared by generateEmbedding and extractKeywords           *)
(***************************************************************************)
\* .toLowerCase().replace(/[^\w\s]/g, ' ') on one character
PlainChar(c) == IF c \in WordCharSet \/ c \in SpaceChars THEN LowerChar(c) ELSE " "

\* the character at position i is white space after the replacement
Blank(s, i) == PlainChar(Char(s, i)) \in SpaceChars

\* the positions where a run of characters other than white space starts
WordStarts(s) == {i \in 1..Len(s) : ~Blank(s, i) /\ (i = 1 \/ Blank(s, i - 1))}

\* the last position of the run that starts at position p: after the
\* replacement the characters other than white space are the \w characters
WordEnd(s, p) == p + RunLength(s, p, WordCharSet) - 1

\* the k-th smallest element of the set S
Nth(S, k) == CHOOSE p \in S : Cardinality({q \in S : q <= p}) = k

\* the runs of characters other than white space, in their order
Words(s) ==
    LET WordFrom(p) == ToLowerCase(SubSeq(s, p, WordEnd(s, p)))
        WordsAt(starts) == [k \in 1..Cardinality(starts) |-> WordFrom(Nth(starts, k))]
    IN WordsAt(WordStarts(s))

\* text.toLowerCase().replace(/[^\w\s]/g, ' ').split(/\s+/) : split also gives an
\* empty string where the text starts with white space (or is empty), and one
\* where it ends with white space
Tokenize(s) ==
    LET LeadingPiece == IF s = "" \/ Blank(s, 1) THEN <<"">> ELSE <<>>
        TrailingPiece == IF s # "" /\ Blank(s, Len(s)) THEN <<"">> ELSE <<>>
    IN LeadingPiece \o Words(s) \o TrailingPiece

(***************************************************************************)
(* generateEmbedding and cosineSimilarity                                  *)
(***************************************************************************)
\* .filter(t => t.length > 2)
TokenMinLength == 2

\* tokens.slice(0, 100)
EmbeddingWindow == 100

LongEnough(t) == Len(t) > TokenMinLength

\* the tokens of generateEmbedding
EmbeddingTokens(s) == SelectSeq(Tokenize(s), LongEnough)

\* an entry of an array: a number, or a value that is not one
Number(n) == [kind |-> "number", n |-> n]

NonNumber(kind) == [kind |-> kind, n |-> 0]

\* the number of times token occurs among tokens
Occurrences(tokens, token) == Cardinality({i \in DOMAIN tokens : tokens[i] = token})

\* wordFreq[token] after the forEach. wordFreq is an object literal, so the
\* names it inherits from Object.prototype are found before any token is
\* counted: wordFreq["constructor"] is the function Object, and
\* (Object || 0) + 1 is a string, to which later occurrences append "1";
\* wordFreq["__proto__"] is Object.prototype, and assigning a string to it
\* changes nothing.
WordFreq(tokens, token) ==
    CASE token = "constructor" -> NonNumber("string")
      [] token = "__proto__" -> NonNumber("object")
      [] OTHER -> Number(Occurrences(tokens, token))

\* a window that holds every token once, at its first occurrence
WindowTokensDistinct(tokens) ==
    SelectSeq([i \in DOMAIN tokens |->
                 IF \E j \in 1..(i - 1) : tokens[j] = tokens[i] THEN "" ELSE tokens[i]],
              LongEnough)

\* tokens.slice(0, 100): the tokens that become dimensions
WindowTokens(tokens) == SubSeq(tokens, 1, Min(EmbeddingWindow, Len(tokens)))

\* tokens.slice(0, 100).map(token => wordFreq[token] || 0)
FrequencyVector(tokens) ==
    LET EntriesOf(window) == [i \in DOMAIN window |-> WordFreq(tokens, window[i])]
    IN EntriesOf(WindowTokens(tokens))

\* embedding.reduce((sum, val) => sum + val * val, 0), when every val is a number
SumSquares(entries) ==
    LET RECURSIVE SumFrom(_)
        SumFrom(i) ==
            IF i > Len(entries) THEN 0
            ELSE entries[i].n * entries[i].n + SumFrom(i + 1)
    IN SumFrom(1)

AllNumbers(entries) == \A i \in DOMAIN entries : entries[i].kind = "number"

\* an array whose i-th element is entries[i] / scale
Vector(entries, scale) == [kind |-> "array", entries |-> entries, scale |-> scale]

\* magnitude > 0 ? embedding.map(v => v / magnitude) : embedding
\* (the magnitude is NaN as soon as one entry is not a number)
Normalize(entries) ==
    LET NormalizeBy(sum) ==
            IF AllNumbers(entries) /\ sum > 0 THEN Vector(entries, Sqrt(sum))
            ELSE Vector(entries, 1)
    IN NormalizeBy(SumSquares(entries))

\* generateEmbedding(text)
GenerateEmbedding(s) == Normalize(FrequencyVector(EmbeddingTokens(s)))

\* null and undefined
Null == [kind |-> "null", entries |-> <<>>, scale |-> 1]

Undefined == [kind |-> "undefined", entries |-> <<>>, scale |-> 1]

\* !vec
Falsy(vec) == vec.kind \in {"null", "undefined"}

\* the loop of cosineSimilarity over the first n elements:
\* dotProduct += (vec1[i] || 0) * (vec2[i] || 0). (vec[i] || 0) leaves a non-empty
\* string or an object as it is, and its product is NaN
DotProduct(va, vb, n) ==
    LET RECURSIVE DotFrom(_)
        DotFrom(i) ==
            IF i > n THEN 0 ELSE va.entries[i].n * vb.entries[i].n + DotFrom(i + 1)
    IN IF AllNumbers(SubSeq(va.entries, 1, n)) /\ AllNumbers(SubSeq(vb.entries, 1, n))
       THEN Frac(DotFrom(1), va.scale * vb.scale)
       ELSE NotANumber

\* cosineSimilarity(vec1, vec2)
CosineSimilarity(va, vb) ==
    IF Falsy(va) \/ Falsy(vb) \/ Len(va.entries) = 0 \/ Len(vb.entries) = 0
    THEN Zero
    ELSE DotProduct(va, vb, Min(Len(va.entries), Len(vb.entries)))

(***************************************************************************)
(* knowledgeGraph: the similarities                                        *)
(***************************************************************************)
\* a tag similarity that divides by the lengths of the lists as they were given
CalculateTagSimilarityOnLists(tags1, tags2) ==
    IF Len(tags1) = 0 \/ Len(tags2) = 0 THEN Zero
    ELSE Lowest(Frac(2 * Cardinality(Range(tags1) \cap Range(tags2)),
                     Len(tags1) + Len(tags2)))

\* calculateTagSimilarity(tags1, tags2)
CalculateTagSimilarity(tags1, tags2) ==
    LET DiceOf(set1, set2) ==
            Lowest(Frac(2 * Cardinality(set1 \cap set2),
                        Cardinality(set1) + Cardinality(set2)))
    IN IF Len(tags1) = 0 \/ Len(tags2) = 0 THEN Zero
       ELSE DiceOf(Range(tags1), Range(tags2))

StopWords ==
    {"the", "a", "an", "and", "or", "but", "in", "on", "at", "to", "for",
     "of", "with", "by", "from", "as", "is", "was", "are", "were", "been",
     "be", "have", "has", "had", "do", "does", "did", "will", "would", "could",
     "should", "may", "might", "can", "this", "that", "these", "those", "i",
     "you", "he", "she", "it", "we", "they", "what", "which", "who", "when",
     "where", "why", "how", "not", "no", "yes"}

\* word.length > 3
KeywordMinLength == 3

IsKeyword(word) == Len(word) > KeywordMinLength /\ word \notin StopWords

\* extractKeywords(text)
ExtractKeywords(s) == SelectSeq(Tokenize(s), IsKeyword)

\* a keyword similarity that measures the shared keywords against those of the
\* first text alone
CalculateKeywordSimilarityOfFirst(text1, text2) ==
    Lowest(Frac(Cardinality(Range(ExtractKeywords(text1)) \cap Range(ExtractKeywords(text2))),
                Cardinality(Range(ExtractKeywords(text1))) + 1))

\* calculateKeywordSimilarity(text1, text2): intersection.size / union.size
CalculateKeywordSimilarity(text1, text2) ==
    LET JaccardOf(set1, set2) ==
            IF Cardinality(set1 \cup set2) = 0 THEN Zero
            ELSE Lowest(Frac(Cardinality(set1 \cap set2), Cardinality(set1 \cup set2)))
    IN JaccardOf(Range(ExtractKeywords(text1)), Range(ExtractKeywords(text2)))

\* note.tags || []  (a note's tags are <<>> when it has none, <<list>> otherwise)
TagsOf(note) == IF note.tags = <<>> THEN <<>> ELSE note.tags[1]

\* note.title + ' ' + note.content
NoteText(note) == note.title \o " " \o note.content

\* if (note1.embedding && note2.embedding) ... : an empty array is truthy
EmbeddingSimilarity(note1, note2) ==
    IF Falsy(note1.embedding) \/ Falsy(note2.embedding) THEN Zero
    ELSE CosineSimilarity(note1.embedding, note2.embedding)

\* tagSimilarity * 0.3 + embeddingSimilarity * 0.5 + keywordSimilarity * 0.2
Blend(tag, emb, kw) ==
    Plus(Plus(Times(tag, Frac(3, 10)), Times(emb, Frac(5, 10))), Times(kw, Frac(2, 10)))

\* calculateSimilarity(note1, note2)
CalculateSimilarity(note1, note2) ==
    Blend(CalculateTagSimilarity(TagsOf(note1), TagsOf(note2)),
          EmbeddingSimilarity(note1, note2),
          CalculateKeywordSimilarity(NoteText(note1), NoteText(note2)))

\* a note as the store hands it over
Note(id, tags, title, content, emb) ==
    [id |-> id, tags |-> tags, title |-> title, content |-> content,
     embedding |-> emb]

\* the note with the embedding of its own text
Embedded(id, tags, title, content) ==
    Note(id, tags, title, content, GenerateEmbedding(title \o " " \o content))

\* the notes the lists are made of
NotePool ==
    { Embedded(1, << <<"work", "todo">> >>, "Project plan", "budget review"),
      Embedded(2, << <<"work">> >>, "Budget review", "project plan!"),
      Embedded(3, <<>>, "Pattern pattern pattern", "constructor"),
      Embedded(4, << <<>> >>, "Groceries", ""),
      Note(5, << <<"work", "work">> >>, "Misc", "", Undefined),
      Note(1, << <<"todo">> >>, "Project plan", "later", Null) }

\* calculateSimilarity for the notes of the pool, computed once per pair
SimilarityTable ==
    [p \in NotePool \X NotePool |-> CalculateSimilarity(p[1], p[2])] @@ <<>>

Similarity(note1, note2) ==
    IF <<note1, note2>> \in DOMAIN SimilarityTable
    THEN SimilarityTable[<<note1, note2>>]
    ELSE CalculateSimilarity(note1, note2)

(***************************************************************************)
(* knowledgeGraph.buildGraph and findRelatedNotes                          *)
(***************************************************************************)
\* for (let j = 0; ...): an inner loop that starts at the first note
InnerStartAll(i) == 1

\* for (let j = i + 1; ...)
InnerStart(i) == i + 1

\* the pairs (i, j) the two loops of buildGraph visit for n notes, in their
\* order (positions from 1)
LoopPairs(n) ==
    LET RECURSIVE PairsFrom(_, _)
        PairsFrom(i, j) ==
            IF i > n THEN <<>>
            ELSE IF j > n THEN PairsFrom(i + 1, InnerStart(i + 1))
            ELSE << <<i, j>> >> \o PairsFrom(i, j + 1)
    IN PairsFrom(1, InnerStart(1))

\* the body of the loops for the pairs, in their order:
\* if (similarity >= threshold) relationships.push({...})
PushedEdges(ns, pairs, t) ==
    LET RECURSIVE EdgesFrom(_)
        Edge(note1, note2, similarity) ==
            [sourceNoteId |-> note1.id, targetNoteId |-> note2.id,
             strength |-> similarity, type |-> "semantic"]
        EdgeIf(note1, note2, similarity) ==
            IF AtLeast(similarity, t) THEN <<Edge(note1, note2, similarity)>> ELSE <<>>
        PairEdge(pair) ==
            EdgeIf(ns[pair[1]], ns[pair[2]], Similarity(ns[pair[1]], ns[pair[2]]))
        EdgesFrom(k) ==
            IF k > Len(pairs) THEN <<>> ELSE PairEdge(pairs[k]) \o EdgesFrom(k + 1)
    IN EdgesFrom(1)

\* a list that still holds what the last run returned
KeptRelationships(last) == last

\* const relationships = [] : a run starts from an empty list, whatever the
\* last run returned
NewRelationships(last) == <<>>

\* buildGraph(notes, threshold), where last is the list the last run returned
BuildGraph(last, ns, t) ==
    NewRelationships(last) \o PushedEdges(ns, LoopPairs(Len(ns)), t)

\* the lower threshold of findRelatedNotes: similarity > 0.2
RelatedThreshold == Frac(2, 10)

\* for (const otherNote of allNotes) { ... similarities.push({ note: otherNote, similarity }) }
Similarities(note, allNotes) ==
    LET RECURSIVE SimilaritiesFrom(_)
        RelatedIf(otherNote, similarity) ==
            IF otherNote.id # note.id /\ MoreThan(similarity, RelatedThreshold)
            THEN <<[note |-> otherNote, similarity |-> similarity]>> ELSE <<>>
        SimilaritiesFrom(k) ==
            IF k > Len(allNotes) THEN <<>>
            ELSE RelatedIf(allNotes[k], Similarity(note, allNotes[k]))
                 \o SimilaritiesFrom(k + 1)
    IN SimilaritiesFrom(1)

\* The list left in the order of allNotes.
SortBySimilarityKeep(items) == items

\* similarities.sort((a, b) => b.similarity - a.similarity): a stable sort puts
\* an item among the sorted items that came before it, after every item that is
\* not smaller
SortBySimilarity(items) ==
    LET RECURSIVE SortFrom(_, _)
        InsertAt(sorted, item) ==
            1 + Cardinality({j \in DOMAIN sorted :
                               AtLeast(sorted[j].similarity, item.similarity)})
        Insert(sorted, item, j) ==
            SubSeq(sorted, 1, j - 1) \o <<item>> \o SubSeq(sorted, j, Len(sorted))
        SortFrom(k, sorted) ==
            IF k > Len(items) THEN sorted
            ELSE SortFrom(k + 1, Insert(sorted, items[k], InsertAt(sorted, items[k])))
    IN SortFrom(1, <<>>)

\* findRelatedNotes(note, allNotes, limit)
FindRelatedNotes(note, allNotes, limit) ==
    LET \* .map(item => ({ ...item.note, relationshipStrength: item.similarity }))
        RelatedNote(item) == [note |-> item.note, relationshipStrength |-> item.similarity]
        \* .slice(0, limit)
        RelatedOf(sorted) == [k \in 1..Min(limit, Len(sorted)) |-> RelatedNote(sorted[k])]
    IN RelatedOf(SortBySimilarity(Similarities(note, allNotes)))

(***************************************************************************)
(* aiService.semanticSearch                                                *)
(***************************************************************************)
\* the lower threshold of semanticSearch: similarity > 0.1
SearchThreshold == Frac(1, 10)

\* note.embedding || generateEmbedding(noteText) : an empty array is truthy
NoteEmbedding(note) ==
    IF Falsy(note.embedding) THEN GenerateEmbedding(NoteText(note)) ELSE note.embedding

\* notes.map(note => ({ ...note, similarity, embedding: noteEmbedding }))
SearchResult(queryEmbedding, note) ==
    LET Scored(noteEmbedding) ==
            [note |-> note,
             similarity |-> CosineSimilarity(queryEmbedding, noteEmbedding),
             embedding |-> noteEmbedding]
    IN Scored(NoteEmbedding(note))

\* (a, b) => b.similarity - a.similarity is a consistent comparison of the
\* items: a NaN difference counts as 0, so an item whose similarity is NaN is
\* equal to every item, and the items it is equal to must then be equal to each
\* other
ConsistentComparison(items) ==
    \/ \A k \in DOMAIN items : ~items[k].similarity.nan
    \/ \A j, k \in DOMAIN items :
          (~items[j].similarity.nan /\ ~items[k].similarity.nan) =>
              SameNumber(items[j].similarity, items[k].similarity)

\* the orders results.sort((a, b) => b.similarity - a.similarity) may leave the
\* items in: the stable descending order, or, the comparison not being
\* consistent, an order the engine chooses
SortOutcomes(items) ==
    IF ConsistentComparison(items) THEN {SortBySimilarity(items)}
    ELSE {[k \in DOMAIN items |-> items[perm[k]]] : perm \in Permutations(DOMAIN items)}

\* results.filter(r => r.similarity > 0.1)
AboveThreshold(r) == MoreThan(r.similarity, SearchThreshold)

\* what semanticSearch(query, ns) may return, given the results of the map
SearchOutcomes(results) == {SelectSeq(sorted, AboveThreshold) : sorted \in SortOutcomes(results)}

(***************************************************************************)
(* knowledgeGraph.clusterByTopic                                           *)
(***************************************************************************)
\* the elements of seq at the positions idx, in their order
Pick(seq, idx) == [r \in 1..Cardinality(idx) |-> seq[Nth(idx, r)]]

RECURSIVE Flatten(_)
\* the keywords of all the notes, in the order the two forEach loops visit them
Flatten(lists) ==
    IF lists = <<>> THEN <<>> ELSE Head(lists) \o Flatten(Tail(lists))

\* a property name that is an array index: Object.entries lists these first, in
\* ascending numeric order (the keywords of the model have at most 9 digits)
IsArrayIndex(kw) ==
    /\ kw # ""
    /\ Len(kw) <= 9
    /\ \A i \in 1..Len(kw) : Char(kw, i) \in DigitSet
    /\ Len(kw) = 1 \/ Char(kw, 1) # "0"

\* keywordFreq[kw] after the loops. keywordFreq is an object literal: for the
\* keyword "constructor" the value read before the first count is the inherited
\* function Object, and (Object || 0) + 1 is a string
KeywordCount(all, kw) ==
    IF kw = "constructor" THEN NonNumber("string") ELSE Number(Occurrences(all, kw))

\* Object.entries(keywordFreq): the array-index names in ascending order, then
\* the other names in the order they were first assigned. An assignment to
\* "__proto__" sets no property of keywordFreq.
KeywordEntries(all) ==
    LET own == {i \in DOMAIN all : /\ all[i] # "__proto__"
                                    /\ \A j \in 1..(i - 1) : all[j] # all[i]}
        indexNames == {i \in own : IsArrayIndex(all[i])}
        IndexRank(i) == 1 + Cardinality({j \in indexNames : ParseInt(all[j]) < ParseInt(all[i])})
        Entry(i) == [kw |-> all[i], count |-> KeywordCount(all, all[i])]
    IN [r \in 1..Cardinality(indexNames) |->
           Entry(CHOOSE i \in indexNames : IndexRank(i) = r)]
       \o [r \in 1..Cardinality(own \ indexNames) |-> Entry(Nth(own \ indexNames, r))]

\* (a, b) => b[1] - a[1] is a consistent comparison of the entries: a NaN
\* difference counts as 0, so an entry whose value is a string is equal to every
\* entry, and the entries it is equal to must then be equal to each other
ConsistentCounts(entries) ==
    \/ \A k \in DOMAIN entries : entries[k].count.kind = "number"
    \/ \A j, k \in DOMAIN entries :
          (entries[j].count.kind = "number" /\ entries[k].count.kind = "number") =>
              entries[j].count.n = entries[k].count.n

\* .sort((a, b) => b[1] - a[1]) with a consistent comparison: a stable sort
\* puts an entry after the entries with a higher count and after the earlier
\* entries with the same count
SortByCount(entries) ==
    LET Higher(j, k) ==
            /\ entries[j].count.kind = "number"
            /\ entries[k].count.kind = "number"
            /\ entries[j].count.n > entries[k].count.n
        Rank(k) == 1 + Cardinality({j \in DOMAIN entries :
                                      Higher(j, k) \/ (j < k /\ ~Higher(k, j))})
    IN [r \in DOMAIN entries |-> entries[CHOOSE k \in DOMAIN entries : Rank(k) = r]]

\* Object.entries(keywordFreq).sort(...).slice(0, numClusters).map(([kw]) => kw):
\* the lists of seeds the call may take; when the comparison is not consistent
\* the engine chooses the order
TopKeywordOutcomes(entries, numClusters) ==
    LET n == Min(numClusters, Len(entries))
    IN IF ConsistentCounts(entries)
       THEN {[r \in 1..n |-> SortByCount(entries)[r].kw]}
       ELSE {[r \in 1..n |-> entries[order[r]].kw] :
                order \in {o \in [1..n -> DOMAIN entries] :
                              \A i, j \in 1..n : o[i] = o[j] => i = j}}

\* if (clusterNotes.length > 0) clusters.push(...)
HasNotes(cluster) == cluster.notes # <<>>

\* topKeywords.forEach((keyword, index) => { ... }) : the seeded clusters
SeededClusters(ns, keywords, top) ==
    SelectSeq([i \in DOMAIN top |->
                 [id |-> i - 1,
                  label |-> top[i],
                  notes |-> Pick(ns, {k \in DOMAIN ns : top[i] \in Range(keywords[k])})]],
              HasNotes)

\* new Set(clusters.flatMap(c => c.notes.map(n => n.id)))
AssignedNoteIds(seeded) ==
    {n.id : n \in UNION {Range(seeded[c].notes) : c \in DOMAIN seeded}}

\* an "Other" cluster that takes every note
UnassignedNotesAll(ns, seeded) == ns

\* notes.filter(n => !assignedNoteIds.has(n.id))
UnassignedNotes(ns, seeded) ==
    Pick(ns, {k \in DOMAIN ns : ns[k].id \notin AssignedNoteIds(seeded)})

\* the clusters returned for the seeds top: the seeded ones, then "Other" when
\* some note is left
ClustersOf(ns, keywords, top) ==
    LET WithOther(seeded, rest) ==
            IF Len(rest) > 0
            THEN Append(seeded, [id |-> Len(seeded), label |-> "Other", notes |-> rest])
            ELSE seeded
        WithSeeded(seeded) == WithOther(seeded, UnassignedNotes(ns, seeded))
    IN WithSeeded(SeededClusters(ns, keywords, top))

\* what clusterByTopic(ns, numClusters) may return, keywords[k] being
\* extractKeywords(title + ' ' + content) of the k-th note
ClusterOutcomes(ns, keywords, numClusters) ==
    {ClustersOf(ns, keywords, top) :
        top \in TopKeywordOutcomes(KeywordEntries(Flatten(keywords)), numClusters)}

(***************************************************************************)
(* The embedding helpers as a state machine                                *)
(***************************************************************************)
RECURSIVE Repeat(_, _)
\* n copies of s, one after the other
Repeat(s, n) ==
    IF n = 0 THEN ""
    ELSE IF n = 1 THEN s
    ELSE Repeat(s, n \div 2) \o Repeat(s, n - n \div 2)

\* the texts handed to generateEmbedding; the last has one token more than the
\* window takes
EmbedTexts ==
    { "",
      "to do",
      "Milk!",
      "  Milk\tto go\n ",
      "tea, milk; tea",
      "Project plan budget review",
      "constructor pattern",
      "pattern pattern pattern constructor",
      "__proto__ chain",
      Repeat("abc ", EmbeddingWindow + 1) }

\* generateEmbedding for the texts of the model, computed once per text
EmbeddingTable == [t \in EmbedTexts |-> GenerateEmbedding(t)] @@ <<>>

EmbeddingOf(t) ==
    IF t \in DOMAIN EmbeddingTable THEN EmbeddingTable[t] ELSE GenerateEmbedding(t)

\* the arguments handed to cosineSimilarity
Vectors == {Null, Undefined} \cup {EmbeddingOf(t) : t \in EmbedTexts}

EmbedInit ==
    /\ embText = ""
    /\ embedding = Undefined
    /\ vec1 = Undefined
    /\ vec2 = Undefined
    /\ cosine = <<>>

\* a call of generateEmbedding(text)
GenerateEmbeddingCall ==
    /\ \E t \in EmbedTexts :
          /\ embText' = t
          /\ embedding' = EmbeddingOf(t)
    /\ UNCHANGED <<vec1, vec2, cosine>>
    /\ UNCHANGED exceptEmbed

\* a call of cosineSimilarity(vec1, vec2)
CosineSimilarityCall ==
    /\ \E v1 \in Vectors, v2 \in Vectors :
          /\ vec1' = v1
          /\ vec2' = v2
          /\ cosine' = <<CosineSimilarity(v1, v2)>>
    /\ UNCHANGED <<embText, embedding>>
    /\ UNCHANGED exceptEmbed

(***************************************************************************)
(* The knowledge graph as a state machine                                  *)
(***************************************************************************)
\* the most notes a list holds
MaxNotes == 3

RECURSIVE ListsOf(_)
\* the lists of n different notes of the pool
ListsOf(n) ==
    IF n = 0 THEN {<<>>}
    ELSE UNION {{Append(l, x) : x \in NotePool \ Range(l)} : l \in ListsOf(n - 1)}

NoteLists == UNION {ListsOf(n) : n \in 0..MaxNotes}

\* the threshold argument of buildGraph: the default 0.3 and a higher one
Thresholds == {Frac(3, 10), Frac(6, 10)}

\* the limit argument of findRelatedNotes: the default 5 and a lower one
Limits == {1, 5}

GraphInit ==
    /\ notes = <<>>
    /\ given = <<>>
    /\ threshold = Zero
    /\ runs = <<>>
    /\ related = <<>>

\* a call of buildGraph(notes, threshold)
BuildGraphCall ==
    /\ runs = <<>>
    /\ related = <<>>
    /\ \E ns \in NoteLists, t \in Thresholds :
          /\ given' = ns
          /\ notes' = ns
          /\ threshold' = t
          /\ runs' = <<BuildGraph(<<>>, ns, t)>>
    /\ UNCHANGED related
    /\ UNCHANGED exceptGraph

\* a second call of buildGraph with the same arguments
BuildGraphAgain ==
    /\ Len(runs) = 1
    /\ runs' = Append(runs, BuildGraph(runs[1], notes, threshold))
    /\ UNCHANGED <<notes, given, threshold, related>>
    /\ UNCHANGED exceptGraph

\* the caller is done with the lists
BuildGraphDone ==
    /\ runs # <<>>
    /\ notes' = <<>>
    /\ given' = <<>>
    /\ threshold' = Zero
    /\ runs' = <<>>
    /\ UNCHANGED related
    /\ UNCHANGED exceptGraph

\* a call of findRelatedNotes(note, allNotes, limit)
FindRelatedNotesCall ==
    /\ runs = <<>>
    /\ related = <<>>
    /\ \E n \in NotePool, ns \in NoteLists, l \in Limits :
          related' = <<[note |-> n, allNotes |-> ns, limit |-> l,
                        out |-> FindRelatedNotes(n, ns, l)]>>
    /\ UNCHANGED <<notes, given, threshold, runs>>
    /\ UNCHANGED exceptGraph

\* the caller is done with the related notes
FindRelatedNotesDone ==
    /\ related # <<>>
    /\ related' = <<>>
    /\ UNCHANGED <<notes, given, threshold, runs>>
    /\ UNCHANGED exceptGraph

(***************************************************************************)
(* The tag and keyword similarities as a state machine                     *)
(***************************************************************************)
\* the most tags a list holds
MaxTags == 2

TagPool == {"work", "todo", "idea"}

\* the tag lists handed to calculateTagSimilarity: a tag may come back in a list
TagLists == UNION {[1..n -> TagPool] : n \in 0..MaxTags}

\* the texts handed to calculateKeywordSimilarity
KeywordTexts ==
    { "",
      "the and of",
      "plan",
      "Budget review",
      "Review the budget!",
      "Project plan: budget",
      "2024 budget 2024",
      " a plan for the project " }

SimInit ==
    /\ tagCall = <<>>
    /\ keywordCall = <<>>

\* a call of calculateTagSimilarity(tags1, tags2)
CalculateTagSimilarityCall ==
    /\ \E t1 \in TagLists, t2 \in TagLists :
          tagCall' = <<[tags1 |-> t1, tags2 |-> t2,
                        out |-> CalculateTagSimilarity(t1, t2)]>>
    /\ keywordCall' = <<>>
    /\ UNCHANGED exceptSim

\* a call of calculateKeywordSimilarity(text1, text2)
CalculateKeywordSimilarityCall ==
    /\ \E t1 \in KeywordTexts, t2 \in KeywordTexts :
          keywordCall' = <<[text1 |-> t1, text2 |-> t2,
                            out |-> CalculateKeywordSimilarity(t1, t2)]>>
    /\ tagCall' = <<>>
    /\ UNCHANGED exceptSim

(***************************************************************************)
(* semanticSearch and clusterByTopic as a state machine                    *)
(***************************************************************************)
\* the query argument of semanticSearch
SearchQueries == {"", "milk", "Tea, milk; tea", "constructor"}

\* the notes handed to semanticSearch: with no embedding, with a cached one
\* that is not the embedding of the text, with a cached one that scores
\* exactly 0.1 against a one-token query, with an empty array, and with a text
\* whose embedding holds an entry that is not a number
SearchPool ==
    { Note(1, <<>>, "Milk", "", Undefined),
      Note(2, <<>>, "Rice", "", Null),
      Note(3, <<>>, "Tea", "milk tea", Undefined),
      Note(4, <<>>, "Old", "title", GenerateEmbedding("milk tea rice soup")),
      Note(5, <<>>, "Tenth", "", Vector(<<Number(1)>>, 10)),
      Note(6, <<>>, "Blank", "", Vector(<<>>, 1)),
      Note(7, <<>>, "Constructor", "", Undefined) }

\* the results of the map for the queries and notes of the model, computed once
SearchResultTable ==
    [p \in SearchQueries \X SearchPool |->
        SearchResult(GenerateEmbedding(p[1]), p[2])] @@ <<>>

\* the notes handed to clusterByTopic: the third has no keyword, the fourth a
\* keyword of digits, the fifth the keyword "constructor", the sixth the id of
\* the first
ClusterPool ==
    { Note(1, <<>>, "Budget review", "budget plan", Undefined),
      Note(2, <<>>, "Project plan", "", Undefined),
      Note(3, <<>>, "Tea", "to go", Undefined),
      Note(4, <<>>, "Budget 2024", "", Undefined),
      Note(5, <<>>, "Constructor", "", Undefined),
      Note(1, <<>>, "Misc", "", Undefined) }

\* extractKeywords(note.title + ' ' + note.content) for the notes of the pool,
\* computed once per note
KeywordTable == [n \in ClusterPool |-> ExtractKeywords(NoteText(n))] @@ <<>>

ClusterLists ==
    UNION {{l \in [1..n -> ClusterPool] : \A i, j \in 1..n : l[i] = l[j] => i = j} :
              n \in 0..MaxNotes}

\* the numClusters argument: the default 5 and lower ones
ClusterCounts == {1, 2, 5}

\* the lists of up to MaxNotes different notes of the pool
SearchLists ==
    UNION {{l \in [1..n -> SearchPool] : \A i, j \in 1..n : l[i] = l[j] => i = j} :
              n \in 0..MaxNotes}

SearchInit ==
    /\ search = <<>>
    /\ clusters = <<>>

\* a call of semanticSearch(query, notes)
SemanticSearchCall ==
    /\ search = <<>>
    /\ clusters = <<>>
    /\ \E q \in SearchQueries, ns \in SearchLists :
          \E out \in SearchOutcomes([k \in DOMAIN ns |-> SearchResultTable[<<q, ns[k]>>]]) :
              search' = <<[query |-> q, notes |-> ns, out |-> out]>>
    /\ UNCHANGED clusters
    /\ UNCHANGED exceptSearch

\* the caller is done with the search results
SemanticSearchDone ==
    /\ search # <<>>
    /\ search' = <<>>
    /\ UNCHANGED clusters
    /\ UNCHANGED exceptSearch

\* a call of clusterByTopic(notes, numClusters)
ClusterByTopicCall ==
    /\ search = <<>>
    /\ clusters = <<>>
    /\ \E ns \in ClusterLists, n \in ClusterCounts :
          \E out \in ClusterOutcomes(ns, [k \in DOMAIN ns |-> KeywordTable[ns[k]]], n) :
              clusters' = <<[notes |-> ns, numClusters |-> n, out |-> out]>>
    /\ UNCHANGED search
    /\ UNCHANGED exceptSearch

\* the caller is done with the clusters
ClusterByTopicDone ==
    /\ clusters # <<>>
    /\ clusters' = <<>>
    /\ UNCHANGED search
    /\ UNCHANGED exceptSearch

(***************************************************************************)
(* digestService.generateSummary                                           *)
(***************************************************************************)
\* The decimal digits of a counter, as a template literal writes them.
RECURSIVE NumberText(_)
NumberText(n) ==
    IF n < 10 THEN Char(DigitChars, n + 1)
    ELSE NumberText(n \div 10) \o Char(DigitChars, (n % 10) + 1)

\* An activity record: the four counters of one day.
Activity(created, updated, completed, meetings) ==
    [notesCreated |-> created, notesUpdated |-> updated,
     tasksCompleted |-> completed, meetingsRecorded |-> meetings]

NoActivityMessage ==
    "You haven't recorded any activity today yet. Start by creating a note or completing a task!"

\* The test on both counters alone that would also look at the other two.
NoActivityAllZero(activity) ==
    /\ activity.notesCreated = 0
    /\ activity.notesUpdated = 0
    /\ activity.tasksCompleted = 0
    /\ activity.meetingsRecorded = 0

\* activity.notesCreated === 0 && activity.tasksCompleted === 0
NoActivity(activity) ==
    activity.notesCreated = 0 /\ activity.tasksCompleted = 0

\* The clause that would write the plural for every counter.
SummaryClausePlural(count, lead, noun) ==
    IF count > 0 THEN lead \o NumberText(count) \o noun \o "s" \o ". " ELSE ""

\* if (count > 0) summary += `${lead}${count}${noun}${count > 1 ? 's' : ''}. `
SummaryClause(count, lead, noun) ==
    IF count > 0
    THEN lead \o NumberText(count) \o noun \o (IF count > 1 THEN "s" ELSE "") \o ". "
    ELSE ""

\* generateSummary(activity, insights); insights is not read.
GenerateSummary(activity) ==
    IF NoActivity(activity) THEN NoActivityMessage
    ELSE Trim("Today you were productive! "
              \o SummaryClause(activity.notesCreated, "Created ", " new note")
              \o SummaryClause(activity.notesUpdated, "Updated ", " existing note")
              \o SummaryClause(activity.tasksCompleted, "Completed ", " task")
              \o SummaryClause(activity.meetingsRecorded, "Recorded ", " meeting"))

(***************************************************************************)
(* generateSummary as a state machine                                      *)
(***************************************************************************)
MaxCounter == 3

\* The values of a counter: the small ones and one of two digits.
SummaryCounters == 0..MaxCounter \cup {12}

SummaryInit == summaryCall = <<>>

GenerateSummaryCall ==
    /\ \E created \in SummaryCounters, updated \in SummaryCounters,
          completed \in SummaryCounters, meetings \in SummaryCounters :
           LET activity == Activity(created, updated, completed, meetings)
           IN summaryCall' = [activity |-> activity, summary |-> GenerateSummary(activity)]
    /\ UNCHANGED exceptSummary

(***************************************************************************)
(* activityDB (storage.js): the dailyActivity table                        *)
(* A calendar date, the text of toISOString().split('T')[0], is kept as    *)
(* the number of its day; the texts compare as the numbers do.  A time is  *)
(* a number of ticks, TicksPerDay of them to the day.                      *)
(***************************************************************************)
TicksPerDay == 2

\* new Date(t).toISOString().split('T')[0]
DateOf(t) == t \div TicksPerDay

ActivityTypes == {"notesCreated", "notesUpdated", "tasksCompleted", "meetingsRecorded"}

\* What first() gives when no record matches.
NoRecord == <<>>

\* A record of db.dailyActivity.
ActivityRecord(id, date, created, updated, completed, meetings) ==
    [id |-> id, date |-> date, notesCreated |-> created, notesUpdated |-> updated,
     tasksCompleted |-> completed, meetingsRecorded |-> meetings]

\* .where('date').between(startDate, endDate, true, true).toArray(): the
\* records of the dates from startDate to endDate, both included, in the order
\* of the index, by date and then by primary key.
GetActivityRange(store, startDate, endDate) ==
    LET inRange == {i \in DOMAIN store :
                       startDate <= store[i].date /\ store[i].date <= endDate}
        Before(i, j) ==
            \/ store[i].date < store[j].date
            \/ store[i].date = store[j].date /\ store[i].id <= store[j].id
        Rank(i) == Cardinality({j \in inRange : Before(j, i)})
    IN [r \in 1..Cardinality(inRange) |-> store[CHOOSE i \in inRange : Rank(i) = r]]

\* .where('date').equals(date).first(): the record of that date with the
\* lowest primary key, or undefined.
FirstOfDate(store, date) ==
    LET found == GetActivityRange(store, date, date)
    IN IF found = <<>> THEN NoRecord ELSE found[1]

\* The object handed to db.dailyActivity.add, with the key the table gives it.
NewActivity(id, date, activityType, count) ==
    [t \in ActivityTypes |-> IF t = activityType THEN count ELSE 0]
        @@ [id |-> id, date |-> date]

\* db.dailyActivity.update(existing.id, updates): the record of that key gets
\* the counter computed from the record as it was read.
UpdateActivity(store, existing, activityType, count) ==
    [i \in DOMAIN store |->
        IF store[i].id = existing.id
        THEN [store[i] EXCEPT ![activityType] = existing[activityType] + count]
        ELSE store[i]]

\* The 7 of getRecentActivity(7) and of the two averages.
WeekDays == 7

\* getRecentActivity(days): from the date of now - days * 24 h to the date of now.
GetRecentActivity(store, day, days) == GetActivityRange(store, day - days, day)

\* Math.round(n / 7) for a count n.
RoundedPerDay(n) == (2 * n + WeekDays) \div (2 * WeekDays)

RECURSIVE SumOf(_, _)
SumOf(activities, counter) ==
    IF activities = <<>> THEN 0
    ELSE Head(activities)[counter] + SumOf(Tail(activities), counter)

\* digestService.getWeeklySummary
GetWeeklySummary(store, day) ==
    LET activities == GetRecentActivity(store, day, WeekDays)
        totals == [t \in ActivityTypes |-> SumOf(activities, t)]
    IN [period |-> "Last 7 days",
        totals |-> totals,
        dailyActivities |-> activities,
        averagePerDay |->
            [notes |-> RoundedPerDay(totals.notesCreated + totals.notesUpdated),
             tasks |-> RoundedPerDay(totals.tasksCompleted)]]

(***************************************************************************)
(* digestService.generateDailyDigest                                       *)
(***************************************************************************)
\* A note and a task as the digest reads them.
DigestNote(id, createdAt, updatedAt, tags, sourceType) ==
    [id |-> id, createdAt |-> createdAt, updatedAt |-> updatedAt,
     tags |-> tags, sourceType |-> sourceType]

\* The record createTask adds: it has no updatedAt (<<>> is undefined).
NewTask(id, createdAt) ==
    [id |-> id, completed |-> FALSE, createdAt |-> createdAt, updatedAt |-> <<>>]

\* toggleTask(id): db.tasks.update(id, { completed: !task.completed })
ToggledTasks(table, id) ==
    [i \in DOMAIN table |->
        IF table[i].id = id THEN [table[i] EXCEPT !.completed = ~table[i].completed]
        ELSE table[i]]

\* getAllTasks: orderBy('createdAt').reverse(); the keys grow with createdAt.
GetAllTasks(table) == [i \in DOMAIN table |-> table[Len(table) + 1 - i]]

\* slice(0, n)
Slice(seq, n) == SubSeq(seq, 1, Min(n, Len(seq)))

\* The activity of a day without a record.
ZeroActivity == [t \in ActivityTypes |-> 0]

\* generateInsights, by the types of the insights it pushes; the texts of the
\* messages are left out.
GenerateInsights(newNotes, tasks, meetings) ==
    LET totalActions == Len(newNotes) + Len(tasks)
        tagged == \E i \in DOMAIN newNotes : newNotes[i].tags # <<>>
    IN (IF totalActions > 5 THEN <<"productivity">> ELSE <<>>)
       \o (IF tagged THEN <<"topics">> ELSE <<>>)
       \o (IF meetings # <<>> THEN <<"meetings">> ELSE <<>>)
       \o (IF tasks # <<>> THEN <<"tasks">> ELSE <<>>)

\* generateDailyDigest(date) at a moment of the day `day`, with the tables
\* as they are.  The activity is what getTodayActivity returns.
GenerateDailyDigest(date, day, store, allNotes, allTasks) ==
    LET dateStr == DateOf(date)
        startOfDay == dateStr * TicksPerDay
        endOfDay == startOfDay + TicksPerDay
        found == FirstOfDate(store, day)
        activity == IF found = NoRecord THEN ZeroActivity ELSE found
        IsToday(note) == note.createdAt >= startOfDay /\ note.createdAt < endOfDay
        IsUpdated(note) ==
            /\ note.updatedAt >= startOfDay
            /\ note.updatedAt < endOfDay
            /\ note.createdAt < startOfDay
        CompletedToday(task) ==
            /\ task.completed
            /\ task.updatedAt # <<>>
            /\ task.updatedAt[1] >= startOfDay
            /\ task.updatedAt[1] < endOfDay
        IsMeeting(note) ==
            (\E i \in DOMAIN note.tags : note.tags[i] = "meeting")
                \/ note.sourceType = "meeting"
        todayNotes == SelectSeq(allNotes, IsToday)
        updatedNotes == SelectSeq(allNotes, IsUpdated)
        completedTasks == SelectSeq(allTasks, CompletedToday)
        meetingNotes == SelectSeq(todayNotes, IsMeeting)
    IN [date |-> dateStr,
        activity |-> activity,
        newNotes |-> Slice(todayNotes, 5),
        updatedNotes |-> Slice(updatedNotes, 5),
        completedTasks |-> Slice(completedTasks, 10),
        meetings |-> meetingNotes,
        insights |-> GenerateInsights(todayNotes, completedTasks, meetingNotes),
        summary |-> GenerateSummary(activity)]

(***************************************************************************)
(* activityDB and the digest as a state machine                            *)
(***************************************************************************)
MaxCallers == 2
MaxCalls == 3
MaxDay == 1
MaxHistory == 8

\* The callers of recordActivity that may be under way together.
Callers == 1..MaxCallers

NotRecording == [pc |-> "idle"]

ActivityInit ==
    /\ today = 0
    /\ dailyActivity = <<>>
    /\ activityNextId = 1
    /\ recording = [p \in Callers |-> NotRecording]
    /\ digest = <<>>
    /\ weekly = <<>>

\* The counters recorded for a date so far.
RecordedOn(store, date) ==
    LET found == GetActivityRange(store, date, date)
    IN SumOf(found, "notesCreated") + SumOf(found, "notesUpdated")
       + SumOf(found, "tasksCompleted") + SumOf(found, "meetingsRecorded")

InFlight == Cardinality({p \in Callers : recording[p].pc # "idle"})

\* recordActivity(activityType) is called: today is computed and the query sent.
RecordActivityCall(p, activityType) ==
    /\ recording[p].pc = "idle"
    /\ RecordedOn(dailyActivity, today) + InFlight < MaxCalls
    /\ recording' = [recording EXCEPT
           ![p] = [pc |-> "read", activityType |-> activityType, today |-> today]]
    /\ UNCHANGED <<today, dailyActivity, activityNextId, digest, weekly>>
    /\ UNCHANGED exceptActivity

\* The query of the call is answered: existing is the first record of the date.
RecordActivityRead(p) ==
    /\ recording[p].pc = "read"
    /\ recording' = [recording EXCEPT
           ![p] = [pc |-> "write", activityType |-> recording[p].activityType,
                   today |-> recording[p].today,
                   existing |-> FirstOfDate(dailyActivity, recording[p].today)]]
    /\ UNCHANGED <<today, dailyActivity, activityNextId, digest, weekly>>
    /\ UNCHANGED exceptActivity

\* The call updates the record it read, or adds one when it read none.
RecordActivityWrite(p) ==
    /\ recording[p].pc = "write"
    /\ LET call == recording[p]
       IN IF call.existing # NoRecord
          THEN /\ dailyActivity' =
                      UpdateActivity(dailyActivity, call.existing, call.activityType, 1)
               /\ UNCHANGED activityNextId
          ELSE /\ dailyActivity' = Append(dailyActivity,
                      NewActivity(activityNextId, call.today, call.activityType, 1))
               /\ activityNextId' = activityNextId + 1
    /\ recording' = [recording EXCEPT ![p] = NotRecording]
    /\ UNCHANGED <<today, digest, weekly>>
    /\ UNCHANGED exceptActivity

\* Midnight passes.
NextDay ==
    /\ today < MaxDay
    /\ today' = today + 1
    /\ UNCHANGED <<dailyActivity, activityNextId, recording, digest, weekly>>
    /\ UNCHANGED exceptActivity

\* The records of the h days before `day`, one for each date, as calls of
\* recordActivity that do not overlap leave them.
History(day, h) ==
    [i \in 1..h |->
        ActivityRecord(i, day - h + i - 1, 1 + (i % 2), i % 3, (2 * i) % 5, 0)]

\* The day of the digest, late enough for MaxHistory days before it.
DigestDay == MaxHistory

\* A table with a record for each of the last h days.
SeededInit ==
    /\ today = DigestDay
    /\ \E h \in 0..MaxHistory :
           /\ dailyActivity = History(DigestDay, h)
           /\ activityNextId = h + 1
    /\ recording = [p \in Callers |-> NotRecording]
    /\ digest = <<>>
    /\ weekly = <<>>

\* The notes of the table when the digest is made.
DigestNotes ==
    << DigestNote(1, DigestDay * TicksPerDay, DigestDay * TicksPerDay + 1,
                  <<"meeting">>, "text"),
       DigestNote(2, (DigestDay - 1) * TicksPerDay + 1, DigestDay * TicksPerDay,
                  <<>>, "text"),
       DigestNote(3, (DigestDay - 1) * TicksPerDay, (DigestDay - 1) * TicksPerDay + 1,
                  <<"idea">>, "meeting"),
       DigestNote(4, (DigestDay - 2) * TicksPerDay, (DigestDay - 2) * TicksPerDay,
                  <<>>, "text") >>

MaxTasks == 2

TaskDbInit == taskTable = <<>>

\* tasksDB.createTask(taskData)
CreateTask ==
    /\ Len(taskTable) < MaxTasks
    /\ taskTable' = Append(taskTable, NewTask(Len(taskTable) + 1, today * TicksPerDay))
    /\ UNCHANGED activityVars
    /\ UNCHANGED exceptTaskDb

\* tasksDB.toggleTask(id)
ToggleTask ==
    /\ \E i \in DOMAIN taskTable :
           taskTable' = ToggledTasks(taskTable, taskTable[i].id)
    /\ UNCHANGED activityVars
    /\ UNCHANGED exceptTaskDb

\* The date arguments of generateDailyDigest: moments of today, of yesterday
\* and of a week ago.
DigestDates ==
    {DigestDay * TicksPerDay, DigestDay * TicksPerDay + 1,
     (DigestDay - 1) * TicksPerDay + 1, (DigestDay - WeekDays) * TicksPerDay}

GenerateDailyDigestCall ==
    /\ digest = <<>>
    /\ weekly = <<>>
    /\ \E date \in DigestDates :
           digest' = [date |-> date, store |-> dailyActivity, tasks |-> taskTable,
                      result |-> GenerateDailyDigest(date, today, dailyActivity,
                                     DigestNotes, GetAllTasks(taskTable))]
    /\ UNCHANGED <<today, dailyActivity, activityNextId, recording, weekly>>
    /\ UNCHANGED exceptActivity

GenerateDailyDigestDone ==
    /\ digest # <<>>
    /\ digest' = <<>>
    /\ UNCHANGED <<today, dailyActivity, activityNextId, recording, weekly>>
    /\ UNCHANGED exceptActivity

GetWeeklySummaryCall ==
    /\ digest = <<>>
    /\ weekly = <<>>
    /\ weekly' = [store |-> dailyActivity,
                  result |-> GetWeeklySummary(dailyActivity, today)]
    /\ UNCHANGED <<today, dailyActivity, activityNextId, recording, digest>>
    /\ UNCHANGED exceptActivity

GetWeeklySummaryDone ==
    /\ weekly # <<>>
    /\ weekly' = <<>>
    /\ UNCHANGED <<today, dailyActivity, activityNextId, recording, digest>>
    /\ UNCHANGED exceptActivity

(***************************************************************************)
(* handleUpdateNote (App-backup.jsx) on one note of notesDB (storage.js)   *)
(* The component state set by setNotes and setCurrentNote is left out.     *)
(***************************************************************************)
\* The updates of NoteEditor.handleSave: the title and the content typed.
Updates(title, content) == [title |-> title, content |-> content]

UpdatePool == {Updates("Tea", "milk tea"), Updates("Tea", ""), Updates("", "")}

\* The note as handleCreateNote leaves it.
CreatedNote == [title |-> "Untitled Note", content |-> "", embedding |-> Null]

\* A record of db.versions.
Version(note) == [title |-> note.title, content |-> note.content]

NotUpdating == [pc |-> "idle"]

NotesInit ==
    /\ storedNote = CreatedNote
    /\ versions = <<Version(CreatedNote)>>
    /\ updating = [p \in Callers |-> NotUpdating]

\* The calls of handleUpdateNote made so far.
UpdatesStarted ==
    Len(versions) - 1 + Cardinality({p \in Callers : updating[p].pc = "version"})

\* updates.content || updates.title
ContentChanged(updates) == updates.content # "" \/ updates.title # ""

\* handleUpdateNote(id, updates) is called: updateNote writes the updates.
HandleUpdateNoteCall(p, updates) ==
    /\ updating[p].pc = "idle"
    /\ UpdatesStarted < MaxCalls
    /\ storedNote' = [storedNote EXCEPT !.title = updates.title,
                                        !.content = updates.content]
    /\ updating' = [updating EXCEPT ![p] = [pc |-> "version", updates |-> updates]]
    /\ UNCHANGED <<versions, activityVars>>
    /\ UNCHANGED exceptNotes

\* updateNote reads the note and adds its version.
UpdateNoteVersion(p) ==
    /\ updating[p].pc = "version"
    /\ versions' = Append(versions, Version(storedNote))
    /\ updating' = [updating EXCEPT ![p].pc = "get"]
    /\ UNCHANGED <<storedNote, activityVars>>
    /\ UNCHANGED exceptNotes

\* updateNote returns db.notes.get(id): updatedNote is the note as it is now.
UpdateNoteReturn(p) ==
    /\ updating[p].pc = "get"
    /\ updating' = [updating EXCEPT
           ![p] = [pc |-> "record", updates |-> updating[p].updates,
                   updatedNote |-> storedNote]]
    /\ UNCHANGED <<storedNote, versions, activityVars>>
    /\ UNCHANGED exceptNotes

\* await activityDB.recordActivity('notesUpdated') is called.
HandleUpdateNoteRecord(p) ==
    /\ updating[p].pc = "record"
    /\ recording[p].pc = "idle"
    /\ recording' = [recording EXCEPT
           ![p] = [pc |-> "read", activityType |-> "notesUpdated", today |-> today]]
    /\ updating' = [updating EXCEPT ![p].pc = "recorded"]
    /\ UNCHANGED <<storedNote, versions>>
    /\ UNCHANGED <<today, dailyActivity, activityNextId, digest, weekly>>
    /\ UNCHANGED exceptNotes

\* recordActivity is over; when the content or the title of the updates is
\* truthy, aiService.generateEmbedding is called on the text of updatedNote.
HandleUpdateNoteEmbed(p) ==
    /\ updating[p].pc = "recorded"
    /\ recording[p].pc = "idle"
    /\ updating' = [updating EXCEPT ![p] =
           IF ContentChanged(updating[p].updates)
           THEN [pc |-> "store",
                 embedding |-> GenerateEmbedding(
                     updating[p].updatedNote.title \o " "
                         \o updating[p].updatedNote.content)]
           ELSE NotUpdating]
    /\ UNCHANGED <<storedNote, versions, activityVars>>
    /\ UNCHANGED exceptNotes

\* The embedding has arrived: notesDB.updateEmbedding(id, embedding).
HandleUpdateNoteStore(p) ==
    /\ updating[p].pc = "store"
    /\ storedNote' = [storedNote EXCEPT !.embedding = updating[p].embedding]
    /\ updating' = [updating EXCEPT ![p] = NotUpdating]
    /\ UNCHANGED <<versions, activityVars>>
    /\ UNCHANGED exceptNotes

(***************************************************************************)
(* extractMetadata as a state machine                                      *)
(***************************************************************************)
\* The texts handed to extractMetadata: a body, then a date expression or
\* none, then a priority marker or none, and some texts of another shape.
MetaBodies == {"call Bob", "Pay rent."}

MetaDates ==
    {"", " next week", " next month", " in 3 days", " in 1 day", " by 12/25",
     " tomorrow", " next week in 2 days", " due 1/2/24 next month"}

MetaMarkers ==
    {"", "!", "!!", "!!!", "!!!!", " urgent", " ASAP!", " important",
     " Low Priority", " when possible", " critical!!"}

MetaTexts ==
    {b \o d \o m : b \in MetaBodies, d \in MetaDates, m \in MetaMarkers}
    \cup {"", "!important! call Bob", "urgent, urgent: asap", "a!b!! c",
          "important!!! x", "in 3 days", "Next Week", "within 3 days",
          "by 12/25!", "nextweek", "call in 12 days urgent", "urgent!!!",
          "important when possible"}

MetaInit == metaCall = <<>>

\* a call of taskExtractor.extractMetadata(text)
ExtractMetadataCall ==
    /\ metaCall = <<>>
    /\ \E t \in MetaTexts, n \in Nows, pd \in ParsedDates :
           metaCall' = [text |-> t, now |-> n, parsed |-> pd,
                        result |-> ExtractMetadata(t, n, pd)]
    /\ UNCHANGED exceptMeta

\* the call is over
ExtractMetadataDone ==
    /\ metaCall # <<>>
    /\ metaCall' = <<>>
    /\ UNCHANGED exceptMeta

(***************************************************************************)
(* TranscriptionService and the RecordingInterface that drives it          *)
(***************************************************************************)
\* The recognizer of the Web Speech API: start() on a recognizer that has
\* been started and has not ended yet throws InvalidStateError; stop() makes
\* a running recognizer wind down, and its 'end' event is delivered later.
RecognitionStart(service) ==
    IF service.recognition = "inactive"
    THEN [service |-> [service EXCEPT !.recognition = "running"], threw |-> FALSE]
    ELSE [service |-> service, threw |-> TRUE]

RecognitionStop(service) ==
    IF service.recognition = "running"
    THEN [service EXCEPT !.recognition = "stopping"]
    ELSE service

\* startRecording(callbacks): transcript = '', getUserMedia, a new
\* MediaRecorder that is started, recognition.start() and isRecording = true;
\* whatever throws is thrown again after onError
StartRecording(service, granted) ==
    LET withRecorder == [service EXCEPT !.transcript = 0, !.mediaRecorder = "recording"]
        started == RecognitionStart(withRecorder)
    IN IF ~granted THEN [service |-> [service EXCEPT !.transcript = 0], threw |-> TRUE]
       ELSE IF started.threw THEN [service |-> withRecorder, threw |-> TRUE]
       ELSE [service |-> [started.service EXCEPT !.isRecording = TRUE], threw |-> FALSE]

\* stopRecording(): null when not recording; otherwise isRecording = false,
\* recognition.stop(), and a promise that the stopped MediaRecorder resolves
StopRecording(service) ==
    LET stopped == RecognitionStop([service EXCEPT !.isRecording = FALSE])
        RecorderStopped(state) ==
            IF state \in {"recording", "paused"} THEN "inactive" ELSE state
    IN IF ~service.isRecording THEN [service |-> service, returned |-> "null"]
       ELSE [service |-> [stopped EXCEPT !.mediaRecorder = RecorderStopped(@)],
             returned |-> "promise"]

\* pauseRecording()
PauseRecording(service) ==
    LET stopped == IF service.isRecording THEN RecognitionStop(service) ELSE service
        RecorderPaused(state) == IF state = "recording" THEN "paused" ELSE state
    IN [stopped EXCEPT !.mediaRecorder = RecorderPaused(@)]

\* resumeRecording(): a recognition.start() that throws leaves the
\* MediaRecorder as it is
ResumeRecording(service) ==
    LET started == IF service.isRecording THEN RecognitionStart(service)
                   ELSE [service |-> service, threw |-> FALSE]
        RecorderResumed(state) == IF state = "paused" THEN "recording" ELSE state
    IN IF started.threw THEN started
       ELSE [service |-> [started.service EXCEPT !.mediaRecorder = RecorderResumed(@)],
             threw |-> FALSE]

\* recognition.onend: the recognizer has ended; it is started again when the
\* service is recording
OnEnd(service) ==
    LET ended == [service EXCEPT !.recognition = "inactive"]
    IN IF ended.isRecording THEN RecognitionStart(ended).service ELSE ended

\* recognition.onresult with a final result: this.transcript += finalTranscript
\* (the transcript is the number of final results it holds)
OnResult(service) == [service EXCEPT !.transcript = @ + 1]

\* the final results a recognizer delivers at most
MaxResults == 2

\* the state of a RecordingInterface that has just been mounted
Mounted == [isRecording |-> FALSE, isPaused |-> FALSE]

\* what the log of the calls keeps of one step
Logged(last, before, threw, returned, paused, stopped) ==
    [last |-> last, before |-> before, threw |-> threw, returned |-> returned,
     paused |-> paused, stopped |-> stopped]

TranscriptionInit ==
    /\ transcriptionService =
          [isRecording |-> FALSE, recognition |-> "inactive", mediaRecorder |-> "null",
           transcript |-> 0]
    /\ recordingInterface = Mounted
    /\ speechLog = Logged("constructor", transcriptionService, FALSE, "", FALSE, FALSE)

\* handleStartRecording: the Start Recording button, shown while the
\* component is not recording
HandleStartRecording(granted) ==
    /\ ~recordingInterface.isRecording
    /\ LET call == StartRecording(transcriptionService, granted)
       IN /\ transcriptionService' = call.service
          /\ recordingInterface' =
                IF call.threw THEN recordingInterface
                ELSE [recordingInterface EXCEPT !.isRecording = TRUE]
          /\ speechLog' = Logged("startRecording", transcriptionService, call.threw, "",
                                 call.threw /\ speechLog.paused,
                                 call.threw /\ speechLog.stopped)
    /\ UNCHANGED exceptTranscription

\* handleStopRecording: the Stop & Save button; with a transcript onComplete
\* makes the App unmount the component, without one the component stays
HandleStopRecording ==
    /\ recordingInterface.isRecording
    /\ LET call == StopRecording(transcriptionService)
       IN /\ transcriptionService' = call.service
          /\ recordingInterface' =
                IF call.returned # "null" /\ call.service.transcript > 0 THEN Mounted
                ELSE [recordingInterface EXCEPT !.isRecording = FALSE]
          /\ speechLog' = Logged("stopRecording", transcriptionService, FALSE, call.returned,
                                 FALSE,
                                 transcriptionService.isRecording \/ speechLog.stopped)
    /\ UNCHANGED exceptTranscription

\* stopRecording() called on the service while no component is recording
StopRecordingCall ==
    /\ ~recordingInterface.isRecording
    /\ LET call == StopRecording(transcriptionService)
       IN /\ transcriptionService' = call.service
          /\ speechLog' = Logged("stopRecording", transcriptionService, FALSE, call.returned,
                                 speechLog.paused /\ ~transcriptionService.isRecording,
                                 transcriptionService.isRecording \/ speechLog.stopped)
    /\ UNCHANGED recordingInterface
    /\ UNCHANGED exceptTranscription

\* handlePauseResume: the Pause / Resume button; setIsPaused is not reached
\* when the service call throws
HandlePauseResume ==
    /\ recordingInterface.isRecording
    /\ IF recordingInterface.isPaused
       THEN LET call == ResumeRecording(transcriptionService)
            IN /\ transcriptionService' = call.service
               /\ recordingInterface' =
                     IF call.threw THEN recordingInterface
                     ELSE [recordingInterface EXCEPT !.isPaused = FALSE]
               /\ speechLog' = Logged("resumeRecording", transcriptionService, call.threw,
                                      "", FALSE, speechLog.stopped)
       ELSE /\ transcriptionService' = PauseRecording(transcriptionService)
            /\ recordingInterface' = [recordingInterface EXCEPT !.isPaused = TRUE]
            /\ speechLog' = Logged("pauseRecording", transcriptionService, FALSE, "",
                                   transcriptionService.isRecording, speechLog.stopped)
    /\ UNCHANGED exceptTranscription

\* a 'result' event of the recognizer, which a recognizer that is winding
\* down still delivers
RecognitionResult ==
    /\ transcriptionService.recognition \in {"running", "stopping"}
    /\ transcriptionService.transcript < MaxResults
    /\ transcriptionService' = OnResult(transcriptionService)
    /\ speechLog' = Logged("onresult", transcriptionService, FALSE, "",
                           speechLog.paused, speechLog.stopped)
    /\ UNCHANGED recordingInterface
    /\ UNCHANGED exceptTranscription

\* the 'end' event of the recognizer, after stop() or when the browser ends
\* the recognition by itself
RecognitionEnd ==
    /\ transcriptionService.recognition \in {"running", "stopping"}
    /\ transcriptionService' = OnEnd(transcriptionService)
    /\ speechLog' = Logged("onend", transcriptionService, FALSE, "",
                           speechLog.paused, speechLog.stopped)
    /\ UNCHANGED recordingInterface
    /\ UNCHANGED exceptTranscription

\* onClose: the App unmounts the component; the service is a singleton and
\* stays as it is
CloseInterface ==
    /\ recordingInterface # Mounted
    /\ recordingInterface' = Mounted
    /\ speechLog' = [speechLog EXCEPT !.last = "onClose", !.before = transcriptionService]
    /\ UNCHANGED transcriptionService
    /\ UNCHANGED exceptTranscription

(***************************************************************************)
(* The specifications                                                      *)
(***************************************************************************)
ServicesInit ==
    TaskInit /\ RelInit /\ EmbedInit /\ GraphInit /\ SimInit /\ SearchInit /\ SummaryInit
    /\ NotesInit /\ MetaInit /\ TaskDbInit /\ TranscriptionInit

Init == ServicesInit /\ ActivityInit

NextTasks == ExtractTasksCall \/ ExtractTasksDone

SpecTasks == Init /\ [][NextTasks]_vars

NextRel == CreateRelationshipCall \/ DeleteRelationship \/ RebuildRelationships

SpecRel == Init /\ [][NextRel]_vars

NextEmbed == GenerateEmbeddingCall \/ CosineSimilarityCall

SpecEmbed == Init /\ [][NextEmbed]_vars

NextGraph ==
    \/ BuildGraphCall
    \/ BuildGraphAgain
    \/ BuildGraphDone
    \/ FindRelatedNotesCall
    \/ FindRelatedNotesDone

SpecGraph == Init /\ [][NextGraph]_vars

NextSim == CalculateTagSimilarityCall \/ CalculateKeywordSimilarityCall

SpecSim == Init /\ [][NextSim]_vars

NextSearch ==
    \/ SemanticSearchCall
    \/ SemanticSearchDone
    \/ ClusterByTopicCall
    \/ ClusterByTopicDone

SpecSearch == Init /\ [][NextSearch]_vars

NextSummary == GenerateSummaryCall

SpecSummary == Init /\ [][NextSummary]_vars

NextActivity ==
    \/ \E p \in Callers, activityType \in ActivityTypes : RecordActivityCall(p, activityType)
    \/ \E p \in Callers : RecordActivityRead(p)
    \/ \E p \in Callers : RecordActivityWrite(p)
    \/ NextDay

SpecActivity == Init /\ [][NextActivity]_vars

\* The digests of a day whose table holds the records of the days before;
\* the calls of recordActivity follow one another.
NextDigest ==
    \/ \E activityType \in ActivityTypes : RecordActivityCall(1, activityType)
    \/ RecordActivityRead(1)
    \/ RecordActivityWrite(1)
    \/ CreateTask
    \/ ToggleTask
    \/ GenerateDailyDigestCall
    \/ GenerateDailyDigestDone
    \/ GetWeeklySummaryCall
    \/ GetWeeklySummaryDone

NextNotes ==
    \/ \E p \in Callers, updates \in UpdatePool : HandleUpdateNoteCall(p, updates)
    \/ \E p \in Callers : UpdateNoteVersion(p)
    \/ \E p \in Callers : UpdateNoteReturn(p)
    \/ \E p \in Callers : HandleUpdateNoteRecord(p)
    \/ \E p \in Callers : RecordActivityRead(p)
    \/ \E p \in Callers : RecordActivityWrite(p)
    \/ \E p \in Callers : HandleUpdateNoteEmbed(p)
    \/ \E p \in Callers : HandleUpdateNoteStore(p)

SpecNotes == Init /\ [][NextNotes]_vars

NextMeta == ExtractMetadataCall \/ ExtractMetadataDone

SpecMeta == Init /\ [][NextMeta]_vars

DigestInit == ServicesInit /\ SeededInit

SpecDigest == DigestInit /\ [][NextDigest]_vars

NextTranscription ==
    \/ \E granted \in BOOLEAN : HandleStartRecording(granted)
    \/ HandleStopRecording
    \/ StopRecordingCall
    \/ HandlePauseResume
    \/ RecognitionResult
    \/ RecognitionEnd
    \/ CloseInterface

SpecTranscription == Init /\ [][NextTranscription]_vars

(***************************************************************************)
(* Claims about the task extractor (checked under SpecTasks)               *)
(***************************************************************************)
Called == result # Idle

\* the tasks pushed before deduplication, in line order (no line threw)
RawTasks == CollectTasks(Split(text, "\n"), 1, noteId, now, parsed).tasks

\* the text a task pattern captures from a line, <<>> when the line gives no task
CapturedOf(trimmed, m) ==
    IF Len(trimmed) < 5 \/ ~m.matched THEN <<>>
    ELSE IF Len(Trim(m.groups[Len(m.groups)])) <= 2 THEN <<>>
    ELSE <<Trim(m.groups[Len(m.groups)])>>

CapturedText(line) == CapturedOf(Trim(line), FirstMatch(Trim(line)))

\* the word today or tomorrow stands in s
HasDayWord(s) == \E i \in 1..Len(s) : TodayTomorrowAt(s, i) > 0

\* C1: extractTasks on the single line "TODO: call dentist tomorrow!!!" returns
\* exactly one task with title "call dentist", priority "high" and
\* dueDate = now + 1 day; and whenever a line matched by a task pattern has the
\* word today or tomorrow in its text, extractTasks returns normally with a
\* task due at now + 0 days or now + 1 day whose title no longer has that word.
C1_DayWordGivesDueDate ==
    /\ (Called /\ text = "TODO: call dentist tomorrow!!!") =>
          /\ result.status = "returned"
          /\ Len(result.tasks) = 1
          /\ result.tasks[1].title = "call dentist"
          /\ result.tasks[1].priority = "high"
          /\ result.tasks[1].dueDate = <<now + DayUnits>>
    /\ (Called /\ \E l \in Range(Split(text, "\n")) :
                     CapturedText(l) # <<>> /\ HasDayWord(CapturedText(l)[1])) =>
          /\ result.status = "returned"
          /\ \E i \in 1..Len(result.tasks) :
                /\ result.tasks[i].dueDate \in {<<now>>, <<now + DayUnits>>}
                /\ ~HasDayWord(result.tasks[i].title)

\* C2: a task from a line matched by the checkbox pattern is completed exactly
\* when its box is checked ("[x]" or "[X]") and not completed when the box is
\* "[ ]"; a task from a line matched by another pattern is not completed.
C2_CheckedBoxMeansCompleted ==
    result.status = "returned" =>
        \A i \in 1..Len(result.tasks) :
            LET t == result.tasks[i]
                box == MatchCheckbox(t.extractedFrom)
            IN IF box.matched
               THEN t.completed <=> (box.groups[1] \in {"x", "X"})
               ELSE ~t.completed

\* C3: the returned list has no two tasks whose titles are equal ignoring case;
\* of the tasks with the same title the one of the earliest line is kept, and
\* the kept tasks stand in line order.
C3_DedupKeepsFirst ==
    result.status = "returned" =>
        LET out == result.tasks
            raw == RawTasks
            first(i) == SetMin({j \in 1..Len(raw) :
                                  ToLowerCase(raw[j].title) = ToLowerCase(out[i].title)})
        IN /\ \A i, j \in 1..Len(out) :
                 i # j => ToLowerCase(out[i].title) # ToLowerCase(out[j].title)
           /\ \A j \in 1..Len(raw) : \E i \in 1..Len(out) :
                 ToLowerCase(raw[j].title) = ToLowerCase(out[i].title)
           /\ \A i \in 1..Len(out) :
                 /\ \E j \in 1..Len(raw) :
                       ToLowerCase(raw[j].title) = ToLowerCase(out[i].title)
                 /\ out[i] = raw[first(i)]
           /\ \A i, j \in 1..Len(out) : i < j => first(i) < first(j)

\* two lines gave titles that differ only in case, and one task was dropped
C3_Witness ==
    /\ result.status = "returned"
    /\ Len(result.tasks) >= 1
    /\ \E i, j \in 1..Len(RawTasks) :
          /\ i < j
          /\ RawTasks[i].title # RawTasks[j].title
          /\ ToLowerCase(RawTasks[i].title) = ToLowerCase(RawTasks[j].title)
    /\ Len(result.tasks) < Len(RawTasks)

\* The text captured from a line by the first of the patterns checkbox,
\* marker, modal verb, imperative verb that matches it: none for a line
\* shorter than 5 after trimming, for a line no pattern matches and for a
\* captured text of 2 characters or fewer.
FirstCaptured(line) ==
    LET trimmed == Trim(line)
        matching == {k \in 1..NumPatterns : MatchPattern(k, trimmed).matched}
        groups == MatchPattern(SetMin(matching), trimmed).groups
    IN IF Len(trimmed) < 5 \/ matching = {} THEN {}
       ELSE IF Len(Trim(groups[Len(groups)])) <= 2 THEN {}
       ELSE {Trim(groups[Len(groups)])}

\* C27: extractTasks gives at most one task for a line, from the text that the
\* first matching pattern captures; a line shorter than 5 characters after
\* trimming, a line that matches no pattern and a line whose captured text has
\* 2 characters or fewer give no task, and a text without a matching line
\* gives the empty list.
C27_OneTaskPerMatchingLine ==
    result.status = "returned" =>
        LET out == result.tasks
            lines == Range(Split(text, "\n"))
            TitleOf(captured) == ExtractMetadata(captured, now, parsed).cleanText
        IN /\ \A i, j \in DOMAIN out :
                i # j => out[i].extractedFrom # out[j].extractedFrom
           /\ \A i \in DOMAIN out : \E line \in lines :
                /\ out[i].extractedFrom = Trim(line)
                /\ \E captured \in FirstCaptured(line) : out[i].title = TitleOf(captured)
           /\ \A line \in lines : \A captured \in FirstCaptured(line) :
                \E i \in DOMAIN out :
                    ToLowerCase(out[i].title) = ToLowerCase(TitleOf(captured))
           /\ (\A line \in lines : FirstCaptured(line) = {}) => out = <<>>

\* A text whose first line captures 2 characters and whose second line is a
\* checkbox line that captures "TODO: call Bob": one task, from the second.
C27_Witness ==
    /\ result.status = "returned"
    /\ text = "TODO: ab\n- [ ] TODO: call Bob"
    /\ Len(result.tasks) = 1
    /\ result.tasks[1].title = "TODO: call Bob"

\* C29: every task returned by extractTasks has a title that is not empty; a
\* line whose captured text holds only priority markers, a date expression
\* and trailing punctuation gives no task.
C29_TitlesNotEmpty ==
    result.status = "returned" =>
        \A i \in DOMAIN result.tasks : result.tasks[i].title # ""

(***************************************************************************)
(* Claims about relationshipsDB (checked under SpecRel)                    *)
(***************************************************************************)
PairOf(r) == <<r.sourceNoteId, r.targetNoteId>>

\* at most one record per ordered pair
OnePerPair == \A r, q \in rels : PairOf(r) = PairOf(q) => r = q

\* a createRelationship call for a pair the table holds adds no record and
\* overwrites that record's strength and type; the other records stay
UpsertStep ==
    \A s \in RelNoteIds, t \in RelNoteIds, in \in RelInputs :
        (CreateRelationship(s, t, in.strength, in.type) /\ FindExisting(rels, s, t) # {}) =>
            /\ Cardinality(rels') = Cardinality(rels)
            /\ \E r \in rels' : /\ PairOf(r) = <<s, t>>
                                /\ r.strength = in.strength
                                /\ r.type = in.type
            /\ \A r \in rels : PairOf(r) # <<s, t>> => r \in rels'
            /\ \A r \in rels' : PairOf(r) # <<s, t>> => r \in rels

\* C4: after any sequence of createRelationship calls the table holds at most
\* one record per ordered pair (source, target); a call for a pair that exists
\* overwrites the record's strength and type and adds no record; (A,B) and
\* (B,A) are two pairs.
C4_OneEdgePerOrderedPair == []OnePerPair /\ [][UpsertStep]_vars

\* (A,B) and (B,A) are both stored, and the last call overwrote a record
C4_Witness ==
    /\ \E r, q \in rels : /\ r.sourceNoteId # r.targetNoteId
                          /\ PairOf(q) = <<r.targetNoteId, r.sourceNoteId>>
    /\ lastCall # <<>>
    /\ \E r \in rels : /\ r.id = lastCall[1].returned.id
                       /\ r.strength # lastCall[1].returned.strength
                       /\ r.id + 1 < nextId

DistinctIds(ns) == \A i, j \in DOMAIN ns : ns[i].id = ns[j].id => i = j

\* 0.3 * tagDice + 0.5 * vectorSimilarity (0 when an embedding is absent)
\* + 0.2 * keywordJaccard
Blended(note1, note2) ==
    Plus(Plus(Times(Frac(3, 10), CalculateTagSimilarity(TagsOf(note1), TagsOf(note2))),
              Times(Frac(5, 10),
                    IF note1.embedding.kind = "array" /\ note2.embedding.kind = "array"
                    THEN CosineSimilarity(note1.embedding, note2.embedding)
                    ELSE Zero)),
         Times(Frac(2, 10),
               CalculateKeywordSimilarity(NoteText(note1), NoteText(note2))))

\* the pairs of positions i < j of the list whose blended similarity is at
\* least the threshold
Qualifying(ns, t) ==
    {p \in (DOMAIN ns) \X (DOMAIN ns) : p[1] < p[2] /\ AtLeast(Blended(ns[p[1]], ns[p[2]]), t)}

\* the positions of the edges of out that join the notes at positions i and j
EdgesOfPair(out, ns, p) ==
    {k \in DOMAIN out : /\ out[k].sourceNoteId = ns[p[1]].id
                        /\ out[k].targetNoteId = ns[p[2]].id}

\* C6: for a note list with distinct ids, buildGraph returns exactly one edge
\* for each pair of positions i < j whose blended similarity is at least the
\* threshold, with the earlier note as its source and the blended similarity as
\* its strength, and no other edge; no edge joins a note to itself and no two
\* edges join the same two notes in opposite directions.
C6_OneEdgePerQualifyingPair ==
    (runs # <<>> /\ DistinctIds(given)) =>
        /\ \A p \in Qualifying(given, threshold) :
              /\ Cardinality(EdgesOfPair(runs[1], given, p)) = 1
              /\ \A k \in EdgesOfPair(runs[1], given, p) :
                    runs[1][k].strength = Blended(given[p[1]], given[p[2]])
        /\ Len(runs[1]) = Cardinality(Qualifying(given, threshold))
        /\ \A k \in DOMAIN runs[1] :
              /\ runs[1][k].sourceNoteId # runs[1][k].targetNoteId
              /\ \E p \in Qualifying(given, threshold) : k \in EdgesOfPair(runs[1], given, p)
              /\ \A l \in DOMAIN runs[1] :
                    ~(/\ runs[1][k].sourceNoteId = runs[1][l].targetNoteId
                      /\ runs[1][k].targetNoteId = runs[1][l].sourceNoteId)

\* a run on a full list with distinct ids where some pairs give an edge and
\* others do not, one of them with a similarity equal to the threshold
C6_Witness ==
    /\ runs # <<>>
    /\ DistinctIds(given)
    /\ Len(given) = MaxNotes
    /\ Len(runs[1]) >= 1
    /\ Len(runs[1]) < Len(LoopPairs(Len(given)))
    /\ \E k \in DOMAIN runs[1] : SameNumber(runs[1][k].strength, threshold)

\* x is in [0, 1]
InUnitInterval(x) == AtLeast(x, Zero) /\ AtLeast(One, x)

\* C7: every edge of buildGraph and every relationshipStrength of
\* findRelatedNotes is in [0, 1], the embeddings of the notes being absent or
\* made by generateEmbedding.
C7_StrengthsInUnitInterval ==
    /\ \A r \in DOMAIN runs : \A k \in DOMAIN runs[r] :
          InUnitInterval(runs[r][k].strength)
    /\ \A c \in DOMAIN related : \A k \in DOMAIN related[c].out :
          InUnitInterval(related[c].out[k].relationshipStrength)

\* The notes of allNotes that qualify for the note asked about: another id
\* and a blended similarity above 0.2.
QualifyingFor(note, allNotes) ==
    {n \in Range(allNotes) :
        n.id # note.id /\ MoreThan(Similarity(note, n), RelatedThreshold)}

\* C25: findRelatedNotes(note, allNotes, limit) never returns the note asked
\* about, returns only notes whose blended similarity to it is above 0.2, at
\* most limit of them, ordered by non-increasing relationshipStrength, and
\* the limit best of the qualifying notes when more than limit qualify.
C25_RelatedAreTheBest ==
    related # <<>> =>
        LET call == related[1]
            out == call.out
            qualifying == QualifyingFor(call.note, call.allNotes)
            returned == {out[k].note : k \in DOMAIN out}
        IN /\ \A k \in DOMAIN out :
                /\ out[k].note.id # call.note.id
                /\ out[k].note \in qualifying
                /\ out[k].relationshipStrength = Similarity(call.note, out[k].note)
           /\ Len(out) <= call.limit
           /\ \A k, l \in DOMAIN out :
                k < l => AtLeast(out[k].relationshipStrength, out[l].relationshipStrength)
           /\ Cardinality(returned) = Min(call.limit, Cardinality(qualifying))
           /\ \A r \in returned, q \in qualifying \ returned :
                AtLeast(Similarity(call.note, r), Similarity(call.note, q))

\* Two notes qualify, the better one is the second of allNotes, and with
\* limit 1 it is the one returned.
C25_Witness ==
    /\ related # <<>>
    /\ related[1].limit = 1
    /\ Cardinality(QualifyingFor(related[1].note, related[1].allNotes)) = 2
    /\ Len(related[1].out) = 1
    /\ Len(related[1].allNotes) >= 2
    /\ related[1].allNotes[1] \in QualifyingFor(related[1].note, related[1].allNotes)
    /\ related[1].out[1].note # related[1].allNotes[1]
    /\ related[1].out[1].note.id # related[1].allNotes[1].id

(***************************************************************************)
(* Claims about generateEmbedding and cosineSimilarity (under SpecEmbed)   *)
(***************************************************************************)
\* generateEmbedding has returned
EmbeddingReturned == embedding.kind = "array"

\* the sum of the squares of the elements is 1
UnitNorm(v) ==
    AllNumbers(v.entries) /\ SumSquares(v.entries) = v.scale * v.scale

\* every element is the number 0
AllZero(v) == \A i \in DOMAIN v.entries : v.entries[i] = Number(0)

\* C8: for a non-empty text generateEmbedding returns a fingerprint of norm 1,
\* or an all-zero one, the latter only when no token is longer than 2
\* characters.
C8_UnitNormOrNoTokens ==
    (EmbeddingReturned /\ embText # "") =>
        \/ UnitNorm(embedding) /\ ~AllZero(embedding)
        \/ AllZero(embedding) /\ EmbeddingTokens(embText) = <<>>

\* the tokens of a list without the repetitions, in the order of their first
\* occurrence
DistinctTokens(tokens) ==
    LET firsts == {i \in DOMAIN tokens : \A j \in 1..(i - 1) : tokens[j] # tokens[i]}
    IN [k \in 1..Cardinality(firsts) |-> tokens[Nth(firsts, k)]]

\* the element of the fingerprint that stands for token: its entry in the
\* frequency table of the text
FrequencyOf(tokens, token) ==
    IF token \in {"constructor", "__proto__"}
    THEN WordFreq(tokens, token)
    ELSE Number(Cardinality({i \in DOMAIN tokens : tokens[i] = token}))

\* fingerprint v has one dimension for each of the tokens of window, in their
\* order, each holding the frequency of its token among tokens
DimensionsAre(v, window, tokens) ==
    /\ Len(v.entries) = Min(EmbeddingWindow, Len(window))
    /\ \A i \in DOMAIN v.entries : v.entries[i] = FrequencyOf(tokens, window[i])

C28_EntryCountsWholeDocument ==
    EmbeddingReturned =>
        LET tokens == EmbeddingTokens(embText)
        IN /\ Len(embedding.entries) = Min(Len(tokens), EmbeddingWindow)
           /\ \A i \in DOMAIN embedding.entries :
                 embedding.entries[i] = Number(Occurrences(tokens, tokens[i]))

\* v is null, undefined or an empty array
NoVector(v) == v.kind # "array" \/ Len(v.entries) = 0

\* C10: cosineSimilarity(v, v) = 1 for every non-empty fingerprint v made by
\* generateEmbedding from a text with a token that survives, and
\* cosineSimilarity(v, w) = 0 when v or w is null, undefined or an empty array.
C10_SelfSimilarityOne ==
    cosine # <<>> =>
        /\ (vec1 = vec2 /\ ~NoVector(vec1)) => SameNumber(cosine[1], One)
        /\ (NoVector(vec1) \/ NoVector(vec2)) => SameNumber(cosine[1], Zero)

(***************************************************************************)
(* Claims about the tag and keyword similarities (checked under SpecSim)   *)
(***************************************************************************)
\* 2 * |A \cap B| / (|A| + |B|) on the sets of the tags of two lists
DiceOfSets(tags1, tags2) ==
    Frac(2 * Cardinality(Range(tags1) \cap Range(tags2)),
         Cardinality(Range(tags1)) + Cardinality(Range(tags2)))

\* C11: calculateTagSimilarity returns 0 when a tag list is empty, 1 for a
\* non-empty list and itself (also when the list repeats a tag), and otherwise
\* 2 * |A \cap B| / (|A| + |B|) on the tag sets without repetitions.
C11_TagDice ==
    tagCall # <<>> =>
        LET c == tagCall[1]
        IN /\ (c.tags1 = <<>> \/ c.tags2 = <<>>) => c.out = Zero
           /\ (c.tags1 # <<>> /\ c.tags1 = c.tags2) => SameNumber(c.out, One)
           /\ (c.tags1 # <<>> /\ c.tags2 # <<>>) =>
                 SameNumber(c.out, DiceOfSets(c.tags1, c.tags2))

\* a list that repeats a tag was compared with itself, giving 1
C11_Witness ==
    /\ tagCall # <<>>
    /\ tagCall[1].tags1 = tagCall[1].tags2
    /\ Len(tagCall[1].tags1) > Cardinality(Range(tagCall[1].tags1))
    /\ SameNumber(tagCall[1].out, One)

\* no word of the text survives the filter of extractKeywords
NoKeywords(t) == ExtractKeywords(t) = <<>>

\* C12: calculateKeywordSimilarity(A, B) = calculateKeywordSimilarity(B, A) for
\* all texts, and the similarity is 0 when neither text has a keyword that
\* survives the filter (longer than 3 characters, no stop word).
C12_KeywordJaccardSymmetric ==
    keywordCall # <<>> =>
        LET c == keywordCall[1]
        IN /\ SameNumber(c.out, CalculateKeywordSimilarity(c.text2, c.text1))
           /\ (NoKeywords(c.text1) /\ NoKeywords(c.text2)) => c.out = Zero

\* two texts with different numbers of keywords, some of them shared
C12_Witness ==
    /\ keywordCall # <<>>
    /\ Cardinality(Range(ExtractKeywords(keywordCall[1].text1)))
          # Cardinality(Range(ExtractKeywords(keywordCall[1].text2)))
    /\ MoreThan(keywordCall[1].out, Zero)
    /\ MoreThan(One, keywordCall[1].out)

(***************************************************************************)
(* Claims about semanticSearch and clusterByTopic (checked under SpecSearch) *)
(***************************************************************************)
\* the similarity of a note to the query: against its cached embedding when it
\* has one, against the embedding of its title and content otherwise
ScoreOf(query, note) ==
    CosineSimilarity(GenerateEmbedding(query),
                     IF note.embedding.kind = "array" THEN note.embedding
                     ELSE GenerateEmbedding(note.title \o " " \o note.content))

\* the position of the note in the list
PositionIn(ns, note) == CHOOSE k \in DOMAIN ns : ns[k] = note

\* C13: semanticSearch returns exactly the notes whose similarity to the query
\* is strictly greater than 0.1, each with that similarity, ordered by
\* non-increasing similarity with notes of equal similarity in their input
\* order; an empty list of notes gives an empty list.
C13_SearchAboveThresholdSorted ==
    search # <<>> =>
        LET c == search[1]
        IN /\ {c.out[k].note : k \in DOMAIN c.out}
                 = {n \in Range(c.notes) : MoreThan(ScoreOf(c.query, n), SearchThreshold)}
           /\ \A j, k \in DOMAIN c.out : c.out[j].note = c.out[k].note => j = k
           /\ \A k \in DOMAIN c.out :
                 c.out[k].similarity = ScoreOf(c.query, c.out[k].note)
           /\ \A j, k \in DOMAIN c.out :
                 j < k =>
                    /\ AtLeast(c.out[j].similarity, c.out[k].similarity)
                    /\ SameNumber(c.out[j].similarity, c.out[k].similarity) =>
                          PositionIn(c.notes, c.out[j].note) < PositionIn(c.notes, c.out[k].note)
           /\ c.notes = <<>> => c.out = <<>>

\* a cluster made for a seed keyword (the keywords are in lower case)
IsSeeded(cluster) == cluster.label # "Other"

\* the seed keywords of the clusters returned, in their order
SeedsOf(out) == [k \in DOMAIN SelectSeq(out, IsSeeded) |-> SelectSeq(out, IsSeeded)[k].label]

\* the keywords of a note
KeywordsIn(note) == Range(ExtractKeywords(note.title \o " " \o note.content))

\* the note has none of the seed keywords
Seedless(note, out) == KeywordsIn(note) \cap Range(SeedsOf(out)) = {}

\* C14: for notes with distinct ids, a note that has none of the seed keywords
\* is in the "Other" cluster and in no seeded cluster; the "Other" cluster holds
\* only such notes, comes at most once, and is left out when there is no such
\* note; every note is in at least one of the clusters returned.
C14_OtherHoldsTheSeedless ==
    (clusters # <<>> /\ DistinctIds(clusters[1].notes)) =>
        LET ns == clusters[1].notes
            out == clusters[1].out
            others == {c \in DOMAIN out : ~IsSeeded(out[c])}
        IN /\ \A k \in DOMAIN ns :
                 Seedless(ns[k], out) =>
                    /\ \E c \in others : ns[k] \in Range(out[c].notes)
                    /\ \A c \in DOMAIN out \ others : ns[k] \notin Range(out[c].notes)
           /\ \A c \in others : \A n \in Range(out[c].notes) : Seedless(n, out)
           /\ Cardinality(others) <= 1
           /\ (\A k \in DOMAIN ns : ~Seedless(ns[k], out)) => others = {}
           /\ \A k \in DOMAIN ns : \E c \in DOMAIN out : ns[k] \in Range(out[c].notes)

\* notes with distinct ids gave two seeded clusters that share a note, and an
\* "Other" cluster
C14_Witness ==
    /\ clusters # <<>>
    /\ DistinctIds(clusters[1].notes)
    /\ \E c \in DOMAIN clusters[1].out : ~IsSeeded(clusters[1].out[c])
    /\ \E c, d \in DOMAIN clusters[1].out :
          /\ c < d
          /\ IsSeeded(clusters[1].out[c])
          /\ IsSeeded(clusters[1].out[d])
          /\ Range(clusters[1].out[c].notes) \cap Range(clusters[1].out[d].notes) # {}

\* the keywords of the notes in the order they are met: the notes in input
\* order, the keywords of a note in text order
KeywordStream(ns) == Flatten([k \in DOMAIN ns |-> ExtractKeywords(ns[k].title \o " " \o ns[k].content)])

\* the keywords by falling number of occurrences, those with the same number in
\* the order they were first met
ByFrequency(all) ==
    LET firsts == {i \in DOMAIN all : \A j \in 1..(i - 1) : all[j] # all[i]}
        Count(i) == Cardinality({j \in DOMAIN all : all[j] = all[i]})
        Rank(i) == 1 + Cardinality({j \in firsts : Count(j) > Count(i) \/ (Count(j) = Count(i) /\ j < i)})
    IN [r \in 1..Cardinality(firsts) |-> all[CHOOSE i \in firsts : Rank(i) = r]]

\* C15: the seeds of clusterByTopic are the numClusters keywords with the most
\* occurrences, keywords with the same number of occurrences being taken in
\* the order they were first met (notes in input order, keywords in text
\* order), whatever the keywords are made of.
C15_SeedsByFrequencyThenEncounter ==
    clusters # <<>> =>
        LET expected == ByFrequency(KeywordStream(clusters[1].notes))
        IN SeedsOf(clusters[1].out)
             = SubSeq(expected, 1, Min(clusters[1].numClusters, Len(expected)))

(***************************************************************************)
(* Claims about generateSummary (checked under SpecSummary)                *)
(***************************************************************************)
\* The positions at which sub occurs in s.
PositionsOf(s, sub) ==
    {i \in 1..(Len(s) - Len(sub) + 1) : SubSeq(s, i, i + Len(sub) - 1) = sub}

\* The four clauses: the counter, the words before it and the noun after it.
ClauseKinds ==
    << [counter |-> "notesCreated", lead |-> "Created ", noun |-> " new note"],
       [counter |-> "notesUpdated", lead |-> "Updated ", noun |-> " existing note"],
       [counter |-> "tasksCompleted", lead |-> "Completed ", noun |-> " task"],
       [counter |-> "meetingsRecorded", lead |-> "Recorded ", noun |-> " meeting"] >>

\* The clause the summary is to hold for a counter: singular for 1, plural above.
ExpectedClause(kind, count) ==
    kind.lead \o NumberText(count) \o kind.noun
        \o (IF count = 1 THEN "." ELSE "s.")

\* The clause of a kind is in the summary once, in its right form, and nowhere
\* else does the summary start a clause of that kind.
ClauseOnce(summary, kind, count) ==
    /\ Cardinality(PositionsOf(summary, kind.lead)) = 1
    /\ PositionsOf(summary, ExpectedClause(kind, count)) = PositionsOf(summary, kind.lead)
    /\ LET at == CHOOSE i \in PositionsOf(summary, kind.lead) : TRUE
           after == at + Len(ExpectedClause(kind, count))
       IN after > Len(summary) \/ Char(summary, after) = " "

ActiveDay(activity) == activity.notesCreated > 0 \/ activity.tasksCompleted > 0

\* C16: for counters with notesCreated > 0 or tasksCompleted > 0 the summary
\* holds exactly one clause for each counter that is not zero and none for a
\* counter that is zero, in the order created, updated, tasks, meetings, the
\* noun singular for 1 and plural above 1.
C16_OneClausePerCounter ==
    (summaryCall # <<>> /\ ActiveDay(summaryCall.activity)) =>
        LET activity == summaryCall.activity
            summary == summaryCall.summary
        IN /\ \A k \in DOMAIN ClauseKinds :
                IF activity[ClauseKinds[k].counter] = 0
                THEN PositionsOf(summary, ClauseKinds[k].lead) = {}
                ELSE ClauseOnce(summary, ClauseKinds[k], activity[ClauseKinds[k].counter])
           /\ \A k, l \in DOMAIN ClauseKinds :
                (/\ k < l
                 /\ activity[ClauseKinds[k].counter] > 0
                 /\ activity[ClauseKinds[l].counter] > 0)
                => \A i \in PositionsOf(summary, ClauseKinds[k].lead),
                      j \in PositionsOf(summary, ClauseKinds[l].lead) : i < j

\* The call on {3, 0, 2, 0} of the specification's example, and a call with a
\* counter of 1 next to a larger one.
C16_Witness ==
    /\ summaryCall # <<>>
    /\ summaryCall.activity \in {Activity(3, 0, 2, 0), Activity(1, 12, 0, 2)}
    /\ PositionsOf(summaryCall.summary, "Created ") # {}

\* C17: generateSummary returns the fixed message for a day without activity
\* exactly when notesCreated = 0 and tasksCompleted = 0, whatever notesUpdated
\* and meetingsRecorded are.
C17_NoActivityMessage ==
    summaryCall # <<>> =>
        (summaryCall.summary = NoActivityMessage
         <=> (/\ summaryCall.activity.notesCreated = 0
              /\ summaryCall.activity.tasksCompleted = 0))

\* A day with updates and meetings only that is reported as without activity.
C17_Witness ==
    /\ summaryCall # <<>>
    /\ summaryCall.activity.notesCreated = 0
    /\ summaryCall.activity.tasksCompleted = 0
    /\ summaryCall.activity.notesUpdated > 0
    /\ summaryCall.activity.meetingsRecorded > 0
    /\ summaryCall.summary = NoActivityMessage

(***************************************************************************)
(* Claims about the digest (checked under SpecDigest)                      *)
(***************************************************************************)
\* The table holds at most one record for a date.
OnePerDate(store) ==
    \A i, j \in DOMAIN store : store[i].date = store[j].date => i = j

\* The four counters of a record, or of an activity without a record.
CountersOf(activity) == [t \in ActivityTypes |-> activity[t]]

\* The counters the table holds for a date: zeros when it has no record.
CountersOn(store, date) ==
    IF \E i \in DOMAIN store : store[i].date = date
    THEN CountersOf(store[CHOOSE i \in DOMAIN store : store[i].date = date])
    ELSE ZeroActivity

\* The notes created or updated within a date.
NotesOfDate(allNotes, date) ==
    {allNotes[i].id : i \in {k \in DOMAIN allNotes :
        DateOf(allNotes[k].createdAt) = date \/ DateOf(allNotes[k].updatedAt) = date}}

\* C18: generateDailyDigest(date) reports, as its activity and in its summary,
\* the counters of the record whose date is the date asked for, zeros when
\* there is none, for every date and not only for today; the notes it lists
\* are those created or updated within that date.
C18_DigestOfRequestedDate ==
    digest # <<>> =>
        LET date == DateOf(digest.date)
            counters == CountersOn(digest.store, date)
            listed == Range(digest.result.newNotes) \cup Range(digest.result.updatedNotes)
        IN /\ CountersOf(digest.result.activity) = counters
           /\ digest.result.summary = GenerateSummary(counters)
           /\ {n.id : n \in listed} = NotesOfDate(DigestNotes, date)

\* r is n / 7 rounded to the nearest integer.
IsRoundedSeventh(r, n) == 14 * r - 7 <= 2 * n /\ 2 * n < 14 * r + 7

\* C19: with one record for each calendar date, at most 7 records, of 7
\* calendar dates, contribute to the totals and to dailyActivities of
\* getWeeklySummary, and the averages are round((created + updated) / 7) and
\* round(completed / 7) of those totals.
C19_WeeklyOfSevenRecords ==
    (weekly # <<>> /\ OnePerDate(weekly.store)) =>
        LET activities == weekly.result.dailyActivities
            totals == weekly.result.totals
        IN /\ Len(activities) <= 7
           /\ Cardinality({activities[i].date : i \in DOMAIN activities}) <= 7
           /\ \A t \in ActivityTypes : totals[t] = SumOf(activities, t)
           /\ IsRoundedSeventh(weekly.result.averagePerDay.notes,
                               totals.notesCreated + totals.notesUpdated)
           /\ IsRoundedSeventh(weekly.result.averagePerDay.tasks, totals.tasksCompleted)

(***************************************************************************)
(* Claims about activityDB (checked under SpecActivity)                    *)
(***************************************************************************)
\* C20: after any sequence of recordActivity calls, calls that overlap at
\* their awaits included, the table holds at most one record for a date.
C20_OneRecordPerDate == OnePerDate(dailyActivity)

\* What the records of a date hold for a counter, all of them taken together.
CounterOn(store, date, activityType) ==
    SumOf(GetActivityRange(store, date, date), activityType)

\* The caller p completes its call in this step.
Completes(p) == recording[p].pc = "write" /\ recording'[p].pc = "idle"

\* C21: no counter of a date ever decreases, and every call of recordActivity
\* that completes adds its count to the counter of its type on its date and
\* leaves the other three counters of that date as they were, whatever the
\* interleaving of the calls, so that no increment is lost.
C21_NoIncrementLost ==
    [][/\ \A date \in {dailyActivity[i].date : i \in DOMAIN dailyActivity},
             t \in ActivityTypes :
            CounterOn(dailyActivity', date, t) >= CounterOn(dailyActivity, date, t)
       /\ \A p \in Callers :
            Completes(p) =>
                \A t \in ActivityTypes :
                    CounterOn(dailyActivity', recording[p].today, t) =
                        CounterOn(dailyActivity, recording[p].today, t)
                        + (IF t = recording[p].activityType THEN 1 ELSE 0)]_vars

(***************************************************************************)
(* Claims about handleUpdateNote (checked under SpecNotes)                 *)
(***************************************************************************)
\* No call of handleUpdateNote is under way.
AllUpdatesDone == \A p \in Callers : updating[p].pc = "idle"

\* C22: once every call of handleUpdateNote has completed, the stored
\* embedding of the note, if there is one, is generateEmbedding of the stored
\* title, a space and the stored content, whatever the interleaving of the
\* calls and whatever the new title and content, the empty string included.
C22_EmbeddingOfStoredText ==
    (AllUpdatesDone /\ ~Falsy(storedNote.embedding)) =>
        storedNote.embedding =
            GenerateEmbedding(storedNote.title \o " " \o storedNote.content)

(***************************************************************************)
(* Claims about extractMetadata (checked under SpecMeta)                   *)
(***************************************************************************)
\* The call returned; a call that throws returns no metadata.
MetaReturned == metaCall # <<>> /\ metaCall.result.threw = ""

\* The length of the run of "!" that position i of s is in, 0 when it is in none.
BangRun(s, i) ==
    IF Char(s, i) # "!" THEN 0
    ELSE LET first == SetMin({a \in 1..i : \A k \in a..i : Char(s, k) = "!"})
             last == SetMin({b \in i..Len(s) : Char(s, b + 1) # "!"})
         IN last - first + 1

\* The words of the three tiers, and the shortest run of "!" of each.
TierWords ==
    << {"urgent", "critical", "asap"}, {"important"}, {"low priority", "when possible"} >>

TierBangs == <<3, 2, 1>>

TierNames == <<"high", "medium", "low">>

\* Position i of s is inside a marker of the tier.
InMarker(s, i, tier) ==
    \/ BangRun(s, i) >= TierBangs[tier]
    \/ \E w \in TierWords[tier], j \in 1..i : MatchesAtCI(s, j, w) /\ i < j + Len(w)

HasMarker(s, tier) == \E i \in 1..Len(s) : InMarker(s, i, tier)

\* The first tier with a marker in the text, 0 when there is none.
FirstTier(s) ==
    IF \E tier \in 1..3 : HasMarker(s, tier)
    THEN SetMin({tier \in 1..3 : HasMarker(s, tier)})
    ELSE 0

RECURSIVE OutsideMarkers(_, _, _)
\* The characters of s from position i on that are in no marker of the tier.
OutsideMarkers(s, i, tier) ==
    IF i > Len(s) THEN ""
    ELSE (IF tier # 0 /\ InMarker(s, i, tier) THEN "" ELSE Char(s, i))
         \o OutsideMarkers(s, i + 1, tier)

ExpressionsAt(k, s) == {i \in 1..Len(s) : DatePatternAt(k, s, i) > 0}

\* The first kind, in the order today/tomorrow, next week, next month,
\* in N days, by/before/due a date, with an expression in s; 0 when none has.
FirstKind(s) ==
    IF \E k \in 1..NumDatePatterns : ExpressionsAt(k, s) # {}
    THEN SetMin({k \in 1..NumDatePatterns : ExpressionsAt(k, s) # {}})
    ELSE 0

\* The N of the first "in N days" of s.
DaysIn(s) ==
    LET i == SetMin(ExpressionsAt(4, s))
    IN ParseInt(SubSeq(s, i + 3, i + 2 + RunLength(s, i + 3, DigitSet)))

\* s without the first expression of kind k, when it has one.
WithoutFirst(k, s) ==
    IF k = 0 \/ ExpressionsAt(k, s) = {} THEN s
    ELSE RemoveAt(s, SetMin(ExpressionsAt(k, s)),
                  DatePatternAt(k, s, SetMin(ExpressionsAt(k, s))))

CompletedOf(table) ==
    LET Done(task) == task.completed
    IN SelectSeq(GetAllTasks(table), Done)

\* C26: after createTask and a toggleTask that marks the task completed
\* during the current day, the digest of that day holds the task in
\* completedTasks and a tasks message among its insights; completedTasks is
\* the first 10 of the tasks completed on that day.
C26_CompletedTasksOfTheDay ==
    (digest # <<>> /\ DateOf(digest.date) = today) =>
        /\ digest.result.completedTasks = Slice(CompletedOf(digest.tasks), 10)
        /\ CompletedOf(digest.tasks) # <<>> =>
               \E i \in DOMAIN digest.result.insights :
                   digest.result.insights[i] = "tasks"

(***************************************************************************)
(* Claims about TranscriptionService (checked under SpecTranscription)     *)
(***************************************************************************)
\* C30: between a pauseRecording call and the next resumeRecording call the
\* recognizer stays stopped, the 'end' event that follows the pause not
\* starting it again; resumeRecording never calls recognition.start() on a
\* recognizer that is running; after stopRecording the recognizer is not
\* started again; and stopRecording when not recording returns null and
\* leaves the service as it is.
C30_PausedRecognizerStaysStopped ==
    /\ speechLog.paused => transcriptionService.recognition # "running"
    /\ (speechLog.last = "resumeRecording" /\ speechLog.before.isRecording) =>
          speechLog.before.recognition # "running"
    /\ speechLog.stopped => transcriptionService.recognition # "running"
    /\ (speechLog.last = "stopRecording" /\ ~speechLog.before.isRecording) =>
          /\ speechLog.returned = "null"
          /\ transcriptionService = speechLog.before

====
